---- MODULE Spec2Model ----
(***************************************************************************)
(* Model of the HR assistant of agentic_hr_project/backend: the LangGraph  *)
(* workflow of HRAgent (agents/graph.py), the payroll services it calls    *)
(* (agents/payroll_tools.py, services/employee_service.py) and the         *)
(* candidate index (agents/ats_tools.py, services/cv_service.py).          *)
(*                                                                         *)
(* Python str values are TLA+ strings; TLC evaluates Len, \o, Head, Tail   *)
(* and SubSeq on them, so every substring test, case conversion and regex  *)
(* of the source is computed character by character.  Emoji and line       *)
(* breaks of the message texts are left out of the string literals.        *)
(***************************************************************************)
EXTENDS Integers, Sequences, FiniteSets, TLC

(***************************************************************************)
(* Python string primitives                                                *)
(***************************************************************************)
LowerLetters == "abcdefghijklmnopqrstuvwxyz"
UpperLetters == "ABCDEFGHIJKLMNOPQRSTUVWXYZ"
DigitChars == "0123456789"
Ch(s, i) == SubSeq(s, i, i)
CharsOf(s) == {Ch(s, i) : i \in 1..Len(s)}
LowerSet == CharsOf(LowerLetters)
UpperSet == CharsOf(UpperLetters)
DigitSet == CharsOf(DigitChars)
LowerMap == [c \in UpperSet |-> Ch(LowerLetters, CHOOSE i \in 1..Len(UpperLetters) : Ch(UpperLetters, i) = c)]
UpperMap == [c \in LowerSet |-> Ch(UpperLetters, CHOOSE i \in 1..Len(LowerLetters) : Ch(LowerLetters, i) = c)]
LowerCh(c) == IF c \in UpperSet THEN LowerMap[c] ELSE c
UpperCh(c) == IF c \in LowerSet THEN UpperMap[c] ELSE c
\* str.lower()
RECURSIVE Lower(_)
Lower(s) == IF s = "" THEN "" ELSE LowerCh(Head(s)) \o Lower(Tail(s))
\* str.upper()
RECURSIVE Upper(_)
Upper(s) == IF s = "" THEN "" ELSE UpperCh(Head(s)) \o Upper(Tail(s))
\* t in s
Contains(s, t) == \E i \in 1..(Len(s) - Len(t) + 1) : SubSeq(s, i, i + Len(t) - 1) = t
\* any(keyword in s for keyword in kws)
ContainsAny(s, kws) == \E k \in kws : Contains(s, k)
\* the value None of an Optional[str]; every use in the source is a truth test,
\* which None and "" both fail
None == ""
\* character classes of the regexes: [A-Za-z], \s (queries are typed on one
\* line: the only white space is the blank) and \w
IsLetter(c) == c \in LowerSet \/ c \in UpperSet
IsSpace(c) == c = " "
IsWordCh(c) == IsLetter(c) \/ c \in DigitSet \/ c = "_"
\* s[i-1:j] and s[i-1], tolerant of indices past the end as Python slices are
Slice(s, i, j) == IF i > Len(s) THEN "" ELSE SubSeq(s, i, IF j > Len(s) THEN Len(s) ELSE j)
At(s, i) == IF i >= 1 /\ i <= Len(s) THEN Ch(s, i) ELSE ""
RECURSIVE LetterRunEnd(_, _)
LetterRunEnd(s, i) == IF i <= Len(s) /\ IsLetter(Ch(s, i)) THEN LetterRunEnd(s, i + 1) ELSE i - 1
RECURSIVE SpaceRunEnd(_, _)
SpaceRunEnd(s, i) == IF i <= Len(s) /\ IsSpace(Ch(s, i)) THEN SpaceRunEnd(s, i + 1) ELSE i - 1
RECURSIVE NonSpaceRunEnd(_, _)
NonSpaceRunEnd(s, i) == IF i <= Len(s) /\ ~IsSpace(Ch(s, i)) THEN NonSpaceRunEnd(s, i + 1) ELSE i - 1
\* str.split()
RECURSIVE SplitFrom(_, _)
SplitFrom(s, i) ==
  LET b == SpaceRunEnd(s, i) + 1
  IN IF b > Len(s) THEN <<>>
     ELSE LET e == NonSpaceRunEnd(s, b) IN <<SubSeq(s, b, e)>> \o SplitFrom(s, e + 1)
Split(s) == SplitFrom(s, 1)
\* ' '.join(ws)
RECURSIVE Join(_)
Join(ws) == IF ws = <<>> THEN "" ELSE IF Len(ws) = 1 THEN ws[1] ELSE ws[1] \o " " \o Join(Tail(ws))
\* str.title(): a letter is upper-cased after a non-letter, lower-cased after a letter
RECURSIVE TitleFrom(_, _)
TitleFrom(s, i) ==
  IF i > Len(s) THEN ""
  ELSE (IF IsLetter(At(s, i - 1)) THEN LowerCh(Ch(s, i)) ELSE UpperCh(Ch(s, i))) \o TitleFrom(s, i + 1)
Title(s) == TitleFrom(s, 1)
Min(S) == CHOOSE x \in S : \A y \in S : x <= y

(***************************************************************************)
(* HRAgent._extract_employee_id_or_name (graph.py 81-150)                  *)
(***************************************************************************)
\* re.search(r'(EMP\d{3}|ADM\d{3})', query.upper()): the leftmost match
IdAt(u, i) ==
  /\ i + 5 <= Len(u)
  /\ SubSeq(u, i, i + 2) \in {"EMP", "ADM"}
  /\ \A k \in 3..5 : Ch(u, i + k) \in DigitSet
IdPositions(u) == {i \in 1..Len(u) : IdAt(u, i)}
IdFrom(u, pos) == IF pos = {} THEN None ELSE SubSeq(u, Min(pos), Min(pos) + 5)
IdIn(u) == IdFrom(u, IdPositions(u))
SearchEmployeeId(query) == IdIn(Upper(query))

\* a if it is a value, else b (x or y on Optional[str])
OrElse(a, b) == IF a # None THEN a ELSE b
\* The ends of the next k runs of s from position i on, runs of blanks and
\* runs of letters in turn (an empty run ends before it starts): the greedy
\* matches of \s+ and [A-Za-z]+ one after the other.
RECURSIVE RunEnds(_, _, _, _)
RunEnds(s, i, blanks, k) ==
  IF k = 0 THEN <<>>
  ELSE IF blanks THEN <<SpaceRunEnd(s, i)>> \o RunEnds(s, SpaceRunEnd(s, i) + 1, FALSE, k - 1)
  ELSE <<LetterRunEnd(s, i)>> \o RunEnds(s, LetterRunEnd(s, i) + 1, TRUE, k - 1)
NoMatch == [ok |-> FALSE, grp |-> "", end |-> 0]

\* Pattern 1, (?:salary for|calculate salary for|payroll for|salary of)\s+
\* ([A-Za-z\s]+?)(?:\s*$|[?.!,]) under re.IGNORECASE: after the anchor and its
\* white space the lazy group grows over letters and blanks until the rest of
\* the query is blank or a terminator follows.
Anchors == <<"salary for", "calculate salary for", "payroll for", "salary of">>
AnchorHits(s, p) == {k \in 1..Len(Anchors) : Lower(Slice(s, p, p + Len(Anchors[k]) - 1)) = Anchors[k]}
AnchorLenOf(hit) == IF hit = {} THEN 0 ELSE Len(Anchors[Min(hit)])
AnchorLen(s, p) == AnchorLenOf(AnchorHits(s, p))
Terminators == {"?", ".", "!", ","}
Term1(s, e) == SpaceRunEnd(s, e + 1) = Len(s) \/ At(s, e + 1) \in Terminators
RECURSIVE P1GroupEnd(_, _)
P1GroupEnd(s, e) ==
  IF e > Len(s) \/ ~(IsLetter(Ch(s, e)) \/ IsSpace(Ch(s, e))) THEN 0
  ELSE IF Term1(s, e) THEN e ELSE P1GroupEnd(s, e + 1)
\* the match at p, given the anchor's length a, the end s0 of the white space
\* after it and the end e of the group
Pattern1Match(s, p, a, s0, e) ==
  IF a > 0 /\ s0 >= p + a /\ e > 0
  THEN [ok |-> TRUE, grp |-> SubSeq(s, s0 + 1, e),
        end |-> IF SpaceRunEnd(s, e + 1) = Len(s) THEN Len(s) ELSE e + 1]
  ELSE NoMatch
Pattern1Group(s, p, a, s0) == Pattern1Match(s, p, a, s0, P1GroupEnd(s, s0 + 1))
Pattern1Anchor(s, p, a) == Pattern1Group(s, p, a, SpaceRunEnd(s, p + a))
Pattern1At(s, p) == Pattern1Anchor(s, p, AnchorLen(s, p))
\* Pattern 2, (?:for)\s+([A-Za-z]+(?:\s+[A-Za-z]+){1,2})(?:\s|$): two or
\* (greedily) three runs of letters after "for", ended by a blank or the end.
\* r is the ends s0, e1, s1, e2, s2, e3 of the runs after "for".
Term2(s, e) == e = Len(s) \/ IsSpace(At(s, e + 1))
Pattern2Two(s, p, r) ==
  /\ Lower(Slice(s, p, p + 2)) = "for"
  /\ r[1] >= p + 3 /\ r[2] > r[1] /\ r[3] > r[2] /\ r[4] > r[3]
Pattern2End(s, r, two) ==
  IF two /\ r[5] > r[4] /\ r[6] > r[5] /\ Term2(s, r[6]) THEN r[6]
  ELSE IF two /\ Term2(s, r[4]) THEN r[4] ELSE 0
Pattern2Match(s, r, e) ==
  IF e > 0
  THEN [ok |-> TRUE, grp |-> SubSeq(s, r[1] + 1, e), end |-> IF e = Len(s) THEN e ELSE e + 1]
  ELSE NoMatch
Pattern2Runs(s, p, r) == Pattern2Match(s, r, Pattern2End(s, r, Pattern2Two(s, p, r)))
Pattern2At(s, p) == Pattern2Runs(s, p, RunEnds(s, p + 3, TRUE, 6))
\* Patterns 3 and 4, \b([A-Z][a-z]+(?:\s+[A-Z][a-z]+){1,2})\b and
\* \b([A-Z][a-z]+\s+[A-Z][a-z]+(?:\s+[A-Z][a-z]+)?)\b: under re.IGNORECASE
\* both match two or (greedily) three words of two or more letters between
\* word boundaries, so both have the same matches.  r is the ends e1, s1, e2,
\* s2, e3 of the runs from p on.
Pattern3Two(s, p, r) ==
  /\ IsLetter(At(s, p)) /\ ~IsWordCh(At(s, p - 1))
  /\ r[1] - p >= 1 /\ r[2] > r[1] /\ r[3] - r[2] >= 2
Pattern3End(s, r, two) ==
  IF two /\ r[4] > r[3] /\ r[5] - r[4] >= 2 /\ ~IsWordCh(At(s, r[5] + 1)) THEN r[5]
  ELSE IF two /\ ~IsWordCh(At(s, r[3] + 1)) THEN r[3] ELSE 0
Pattern3Match(s, p, e) ==
  IF e > 0 THEN [ok |-> TRUE, grp |-> SubSeq(s, p, e), end |-> e] ELSE NoMatch
Pattern3Runs(s, p, r) == Pattern3Match(s, p, Pattern3End(s, r, Pattern3Two(s, p, r)))
Pattern3At(s, p) == Pattern3Runs(s, p, RunEnds(s, p, FALSE, 5))
PatternAt(n, s, p) ==
  IF n = 1 THEN Pattern1At(s, p) ELSE IF n = 2 THEN Pattern2At(s, p) ELSE Pattern3At(s, p)
\* re.findall(pattern, query, re.IGNORECASE): the groups of the successive
\* non-overlapping matches, left to right
RECURSIVE FindAll(_, _, _)
FindAllFrom(n, s, p, m) ==
  IF m.ok THEN <<m.grp>> \o FindAll(n, s, m.end + 1) ELSE FindAll(n, s, p + 1)
FindAll(n, s, p) == IF p > Len(s) THEN <<>> ELSE FindAllFrom(n, s, p, PatternAt(n, s, p))
excluded_words ==
  {"salary", "for", "calculate", "payroll", "employee", "the", "a", "an",
   "my", "me", "show", "get", "help", "with", "details", "information",
   "smith", "john", "jane", "doe"}
\* lines 121-128: the match without excluded and one-letter words, title-cased
CleanWords(name_words) == SelectSeq(name_words, LAMBDA w : w \notin excluded_words /\ Len(w) > 1)
TitleOfWords(clean_words) == IF Len(clean_words) >= 1 THEN Title(Join(clean_words)) ELSE ""
CleanName(match) == TitleOfWords(CleanWords(Split(Lower(match))))
\* lines 117-131: the first match whose clean name has three characters or more
RECURSIVE FirstCleanName(_)
FirstClean(clean_name, matches) ==
  IF Len(clean_name) > 2 THEN clean_name ELSE FirstCleanName(Tail(matches))
FirstCleanName(matches) ==
  IF matches = <<>> THEN None ELSE FirstClean(CleanName(Head(matches)), matches)
RECURSIVE FirstPatternName(_, _)
FirstPatternName(query, n) ==
  IF n > 4 THEN None
  ELSE OrElse(FirstCleanName(FindAll(n, query, 1)), FirstPatternName(query, n + 1))
\* lines 134-147: re.sub(r'[^\w]', '', word) and the capitalised-word fallback
RECURSIVE StripNonWord(_)
StripNonWord(w) ==
  IF w = "" THEN "" ELSE (IF IsWordCh(Head(w)) THEN Head(w) ELSE "") \o StripNonWord(Tail(w))
PotentialOf(words) ==
  SelectSeq([i \in 1..Len(words) |-> StripNonWord(words[i])],
            LAMBDA w : Len(w) > 2 /\ Head(w) \in UpperSet /\ Lower(w) \notin excluded_words)
PotentialNames(query) == PotentialOf(Split(query))
JoinNames(pn) == IF Len(pn) >= 2 THEN Join(SubSeq(pn, 1, IF Len(pn) < 3 THEN Len(pn) ELSE 3)) ELSE None
extract_employee_id_or_name(query) ==
  OrElse(SearchEmployeeId(query),
         OrElse(FirstPatternName(query, 1), JoinNames(PotentialNames(query))))

(***************************************************************************)
(* The employees collection and EmployeeService (employee_service.py)      *)
(***************************************************************************)
\* Money is in whole rupees and tax_rate in percent (0.1 is 10), so that
\* gross * tax_rate is computed in integers.
Employee(id, name, dept, pos, salary, bonus, rate, ded, status) ==
  [employee_id |-> id, name |-> name, department |-> dept, position |-> pos,
   salary |-> salary, bonus |-> bonus, tax_rate |-> rate, deductions |-> ded,
   status |-> status]
\* The documents of the collection in their natural (insertion) order, which
\* is the order find_one and find answer in.
SampleEmployees ==
  << Employee("ADM001", "Sara Fernando", "HR", "HR Manager", 150000, 20000, 15, 5000, "active"),
     Employee("EMP001", "Kamal Perera", "IT", "Developer", 100000, 10000, 10, 2000, "active"),
     Employee("EMP002", "Nimal Perera", "Finance", "Accountant", 80000, 5000, 10, 1000, "active"),
     Employee("EMP003", "Shireen Silva", "Marketing", "Designer", 70000, 0, 10, 0, "active"),
     Employee("EMP004", "Ruwan Silva", "IT", "Tester", 60000, 0, 10, 0, "inactive") >>

RECURSIVE LStrip(_)
LStrip(s) == IF s # "" /\ IsSpace(Head(s)) THEN LStrip(Tail(s)) ELSE s
RECURSIVE RStrip(_)
RStrip(s) == IF s # "" /\ IsSpace(Ch(s, Len(s))) THEN RStrip(SubSeq(s, 1, Len(s) - 1)) ELSE s
\* str.strip()
Strip(s) == RStrip(LStrip(s))
\* the first index of a set of indices, 0 for None
FirstOf(S) == IF S = {} THEN 0 ELSE Min(S)
\* re.match(r'^(EMP|ADM)\d{3}$', s)
IsEmployeeIdFormat(s) == Len(s) = 6 /\ IdAt(s, 1)

\* Every operation on the collection raises while the database is down
\* (db_up = FALSE); each service method catches that and answers None or [].
get_employee_by_id(emps, db_up, employee_id) ==
  IF ~db_up THEN 0
  ELSE FirstOf({i \in 1..Len(emps) : emps[i].employee_id = employee_id})

\* a lookup's answer if it found a document, else the next lookup's
FirstFound(a, b) == IF a # 0 THEN a ELSE b
\* lines 46-49: {"name": {"$regex": "^name$", "$options": "i"}}
find_exact_name(emps, clean_name) ==
  FirstOf({i \in 1..Len(emps) : Lower(emps[i].name) = Lower(clean_name)})
\* lines 56-59: {"name": {"$regex": name, "$options": "i"}}
find_partial_name(emps, clean_name) ==
  FirstOf({i \in 1..Len(emps) : Contains(Lower(emps[i].name), Lower(clean_name))})
\* lines 66-82: an active employee one of whose name parts is a part of the search
find_name_parts(emps, search_name_parts) ==
  FirstOf({i \in 1..Len(emps) :
             /\ emps[i].status = "active"
             /\ \E k \in 1..Len(Split(Lower(emps[i].name))) :
                  \E j \in 1..Len(search_name_parts) :
                    Split(Lower(emps[i].name))[k] = search_name_parts[j]})
find_clean_name(emps, clean_name) ==
  FirstFound(find_exact_name(emps, clean_name),
             FirstFound(find_partial_name(emps, clean_name),
                        find_name_parts(emps, Split(Lower(clean_name)))))
get_employee_by_name(emps, db_up, employee_name) ==
  IF ~db_up THEN 0 ELSE find_clean_name(emps, Strip(employee_name))

find_clean_identifier(emps, db_up, clean_identifier) ==
  FirstFound(IF IsEmployeeIdFormat(Upper(clean_identifier))
             THEN get_employee_by_id(emps, db_up, Upper(clean_identifier)) ELSE 0,
             get_employee_by_name(emps, db_up, clean_identifier))
get_employee_by_identifier(emps, db_up, identifier) ==
  find_clean_identifier(emps, db_up, Strip(identifier))

\* find({"status": "active"})
get_all_employees(emps, db_up) ==
  IF ~db_up THEN <<>> ELSE SelectSeq(emps, LAMBDA e : e.status = "active")

\* {"error": msg}, and the test "error" in result: a dict is a record and its
\* keys are the record's fields
ErrorResult(msg) == [error |-> msg]
HasError(result) == "error" \in DOMAIN result

\* d.get(key, default): a dict is a record and its keys are the record's fields
Get(d, key, default) == IF key \in DOMAIN d THEN d[key] ELSE default
\* tax_rate when the document has none: 0.1, in percent
DefaultTaxRate == 10
\* lines 160-171: the result dict
breakdown_result(employee, base_salary, bonus, gross_salary, tax_rate, tax_amount, deductions) ==
  [employee_id |-> employee.employee_id, name |-> employee.name,
   department |-> employee.department, position |-> employee.position,
   base_salary |-> base_salary, bonus |-> bonus,
   gross_salary |-> gross_salary,
   tax_rate |-> tax_rate,
   tax_amount |-> tax_amount,
   deductions |-> deductions,
   net_salary |-> gross_salary - tax_amount - deductions]
\* lines 155-157: gross_salary and tax_amount of the components
breakdown_of(employee, base_salary, bonus, tax_rate, deductions) ==
  breakdown_result(employee, base_salary, bonus, base_salary + bonus, tax_rate,
                   ((base_salary + bonus) * tax_rate) \div 100, deductions)
\* a calculation that takes the tax rate of a document without one as 0
breakdown_with_zero_rate(employee) ==
  breakdown_of(employee, Get(employee, "salary", 0), Get(employee, "bonus", 0),
               Get(employee, "tax_rate", 0), Get(employee, "deductions", 0))
\* EmployeeService.calculate_salary, lines 149-171: the breakdown of a document,
\* its components read with employee.get(field, default)
salary_breakdown(employee) ==
  breakdown_of(employee, Get(employee, "salary", 0), Get(employee, "bonus", 0),
               Get(employee, "tax_rate", DefaultTaxRate), Get(employee, "deductions", 0))
salary_of_found(emps, i, employee_id) ==
  IF i = 0
  THEN ErrorResult("Employee " \o employee_id \o " not found. Available employees: ...")
  ELSE salary_breakdown(emps[i])
\* EmployeeService.calculate_salary
service_calculate_salary(emps, db_up, employee_id) ==
  salary_of_found(emps, get_employee_by_id(emps, db_up, employee_id), employee_id)

\* total += salary_calc[field] over the line items
RECURSIVE SumField(_, _)
SumField(items, field) ==
  IF items = <<>> THEN 0 ELSE Head(items)[field] + SumField(Tail(items), field)

\* EmployeeService.generate_payroll_report, lines 236-250: the totals
report_totals(report_title, employee_details) ==
  IF employee_details = <<>> THEN ErrorResult("No salary calculations could be completed")
  ELSE [department |-> report_title,
        total_employees |-> Len(employee_details),
        total_base_salary |-> SumField(employee_details, "base_salary"),
        total_bonus |-> SumField(employee_details, "bonus"),
        total_gross_salary |-> SumField(employee_details, "gross_salary"),
        total_tax |-> SumField(employee_details, "tax_amount"),
        total_deductions |-> SumField(employee_details, "deductions"),
        total_net_salary |-> SumField(employee_details, "net_salary"),
        employees |-> employee_details]
\* lines 221-232: the line item of a calculation
line_item(salary_calc) ==
  [employee_id |-> salary_calc.employee_id, name |-> salary_calc.name,
   position |-> salary_calc.position, department |-> salary_calc.department,
   base_salary |-> salary_calc.base_salary, bonus |-> salary_calc.bonus,
   gross_salary |-> salary_calc.gross_salary, tax_amount |-> salary_calc.tax_amount,
   deductions |-> salary_calc.deductions, net_salary |-> salary_calc.net_salary]
\* lines 211-234: the line items of the calculations that succeeded, a failed
\* calculation is logged and left out
line_items(calculations) ==
  [k \in 1..Len(SelectSeq(calculations, LAMBDA c : ~HasError(c))) |->
     line_item(SelectSeq(calculations, LAMBDA c : ~HasError(c))[k])]
\* line 212: calculate_salary for each selected employee; the lookups of the
\* calculations in failed raise, which get_employee_by_id answers with None
calculations_of(emps, selected, failed) ==
  [k \in 1..Len(selected) |->
     service_calculate_salary(emps, k \notin failed, selected[k].employee_id)]
\* the totals of whoever was selected, nobody included
report_of_anybody(emps, report_title, selected, failed) ==
  report_totals(report_title, line_items(calculations_of(emps, selected, failed)))
\* lines 198-250, once the employees are selected
report_of_calculations(emps, report_title, selected, failed) ==
  IF selected = <<>> THEN ErrorResult("No employees found for " \o report_title)
  ELSE report_totals(report_title, line_items(calculations_of(emps, selected, failed)))
\* the same with the database up or down for the whole call
report_of_selected(emps, db_up, report_title, selected) ==
  report_of_calculations(emps, report_title, selected,
                         IF db_up THEN {} ELSE 1..Len(selected))
\* lines 187-196: the employees of the report
report_selection(emps, db_up, department) ==
  IF department # "" /\ Lower(department) # "all"
  THEN SelectSeq(emps, LAMBDA e : Lower(e.department) = Lower(department) /\ e.status = "active")
  ELSE get_all_employees(emps, db_up)
report_title_of(department) ==
  IF department # "" /\ Lower(department) # "all" THEN department \o " Department"
  ELSE "All Departments"
\* EmployeeService.generate_payroll_report; department None is ""
service_generate_payroll_report(emps, db_up, department) ==
  IF ~db_up /\ department # "" /\ Lower(department) # "all"
  THEN ErrorResult("Error generating payroll report: database unavailable")
  ELSE report_of_selected(emps, db_up, report_title_of(department),
                          report_selection(emps, db_up, department))
\* EmployeeService.generate_payroll_report when the find of line 189 or 195
\* succeeds and the lookups of the calculations in failed raise
report_with_failed_lookups(emps, department, failed) ==
  report_of_calculations(emps, report_title_of(department),
                         report_selection(emps, TRUE, department), failed)

(***************************************************************************)
(* PayrollTools (payroll_tools.py)                                         *)
(***************************************************************************)
\* lines 52-68
tools_salary_of_employee(emps, db_up, clean_identifier, employee) ==
  IF employee = 0
  THEN (IF get_all_employees(emps, db_up) # <<>>
        THEN ErrorResult("Employee '" \o clean_identifier \o "' not found. Available employees include: ...")
        ELSE ErrorResult("No employees found in the database"))
  ELSE service_calculate_salary(emps, db_up, emps[employee].employee_id)
\* lines 33-50: by ID, then by name, then by the general identifier lookup
tools_find_employee(emps, db_up, clean_identifier) ==
  FirstFound(IF IsEmployeeIdFormat(Upper(clean_identifier))
             THEN get_employee_by_id(emps, db_up, Upper(clean_identifier)) ELSE 0,
             FirstFound(get_employee_by_name(emps, db_up, clean_identifier),
                        get_employee_by_identifier(emps, db_up, clean_identifier)))
tools_calculate_clean(emps, db_up, clean_identifier) ==
  IF clean_identifier = "" THEN ErrorResult("Please provide employee ID or name")
  ELSE tools_salary_of_employee(emps, db_up, clean_identifier,
                                tools_find_employee(emps, db_up, clean_identifier))
\* PayrollTools.calculate_salary
tools_calculate_salary(emps, db_up, employee_identifier) ==
  tools_calculate_clean(emps, db_up, Strip(employee_identifier))

tools_generate_payroll_report(emps, db_up, department) ==
  service_generate_payroll_report(emps, db_up, department)

\* PayrollTools.get_all_employees: [{"error": ...}] when nothing is found
ErrorListIfEmpty(result) ==
  IF result = <<>> THEN << ErrorResult("No employees found in database") >> ELSE result
tools_get_all_employees(emps, db_up) == ErrorListIfEmpty(get_all_employees(emps, db_up))
(***************************************************************************)
(* The candidates collection and CVService (cv_service.py)                 *)
(***************************************************************************)
\* a find that forgets the status filter: the variant C14 must reject
find_any_status(cands, db_up) == IF ~db_up THEN <<>> ELSE cands
\* find({"status": "active"}); [] while the database is down
cv_get_all_candidates(cands, db_up) ==
  IF ~db_up THEN <<>> ELSE SelectSeq(cands, LAMBDA c : c.status = "active")

\* a lookup that never finds the candidate: the variant C10 must reject
never_found(cands, db_up, candidate_name) == 0
\* find_one({"candidate_name": name, "status": "active"}): an index, 0 for None
cv_get_candidate_by_name(cands, db_up, candidate_name) ==
  IF ~db_up THEN 0
  ELSE FirstOf({i \in 1..Len(cands) :
                  cands[i].candidate_name = candidate_name /\ cands[i].status = "active"})

\* CVService.save_candidate_to_db: the new collection and the result dict
save_candidate_to_db(cands, db_up, candidate_data) ==
  LET existing == FirstOf({i \in 1..Len(cands) :
                             /\ cands[i].candidate_name = candidate_data.candidate_name
                             /\ cands[i].position = candidate_data.position
                             /\ cands[i].status = "active"})
  IN IF ~db_up
     THEN [cands |-> cands, success |-> FALSE, message |-> "Error saving candidate: database unavailable"]
     ELSE IF existing # 0
     THEN [cands |-> cands, success |-> FALSE,
           message |-> "Candidate " \o candidate_data.candidate_name \o " for position "
                       \o candidate_data.position \o " already exists"]
     ELSE [cands |-> Append(cands, [candidate_data EXCEPT !.status = "active"]),
           success |-> TRUE,
           message |-> "Candidate " \o candidate_data.candidate_name \o " added successfully"]

\* CVService.delete_candidate_from_db: update_one({"candidate_name": name},
\* {"$set": {"status": "deleted", "deleted_at": now}}) changes the first document
\* of that name whatever its status; modified_count is 1 whenever one matched,
\* since the new deleted_at differs from any stored one.
delete_candidate_from_db(cands, db_up, candidate_name) ==
  LET hit == FirstOf({i \in 1..Len(cands) : cands[i].candidate_name = candidate_name})
  IN IF ~db_up
     THEN [cands |-> cands, success |-> FALSE, message |-> "Error deleting candidate: database unavailable"]
     ELSE IF hit # 0
     THEN [cands |-> [cands EXCEPT ![hit].status = "deleted"], success |-> TRUE,
           message |-> "Candidate " \o candidate_name \o " deleted successfully"]
     ELSE [cands |-> cands, success |-> FALSE,
           message |-> "Candidate " \o candidate_name \o " not found"]

(***************************************************************************)
(* ATSTools (ats_tools.py)                                                 *)
(***************************************************************************)
\* The state of an ATSTools object and what it persists: the collection, the
\* FAISS index (None, or the vectors added in order), cv_metadata, and the
\* pair of files cv_index.faiss / metadata.pkl.
NoIndex == [present |-> FALSE, vectors |-> <<>>]
NoFiles == [present |-> FALSE, vectors |-> <<>>, metadata |-> <<>>]
EmptyAts == [candidates |-> <<>>, index |-> NoIndex, cv_metadata |-> <<>>, saved |-> NoFiles]

\* SentenceTransformer.encode stands outside the repository: a deterministic
\* embedder with a fixed dimension, here three features of the text.
encode(text) ==
  << IF Contains(Lower(text), "java") THEN 1 ELSE 0,
     IF Contains(Lower(text), "python") THEN 1 ELSE 0,
     Len(Split(text)) >>
\* IndexFlatL2: squared L2 distance
L2(u, v) == (u[1] - v[1]) * (u[1] - v[1]) + (u[2] - v[2]) * (u[2] - v[2]) + (u[3] - v[3]) * (u[3] - v[3])

\* _save_index: both files are written, and only when there is an index
save_index(ats, disk_ok) ==
  IF ats.index.present /\ disk_ok
  THEN [ats EXCEPT !.saved = [present |-> TRUE, vectors |-> ats.index.vectors,
                                metadata |-> ats.cv_metadata]]
  ELSE ats

\* _load_index in a new ATSTools, whose index is None and cv_metadata []:
\* both files are read, and only when both exist
load_index(ats) ==
  IF ats.saved.present
  THEN [ats EXCEPT !.index = [present |-> TRUE, vectors |-> ats.saved.vectors],
                   !.cv_metadata = ats.saved.metadata]
  ELSE [ats EXCEPT !.index = NoIndex, !.cv_metadata = << >>]

\* the skill patterns of _extract_cv_information: \b(?:Java|Python|...)\b under
\* re.IGNORECASE, lower-cased, as a set (list(set(...)))
SkillNames ==
  {"java", "python", "javascript", "react", "angular", "vue", "node.js", "spring", "django",
   "flask", "aws", "azure", "docker", "kubernetes", "git", "jenkins", "mysql", "postgresql",
   "mongodb", "html", "css", "typescript", "jquery", "bootstrap"}
ContainsWord(s, w) ==
  \E i \in 1..(Len(s) - Len(w) + 1) :
    /\ SubSeq(s, i, i + Len(w) - 1) = w
    /\ ~IsWordCh(At(s, i - 1))
    /\ ~IsWordCh(At(s, i + Len(w)))
extract_skills(cv_text) == {k \in SkillNames : ContainsWord(Lower(cv_text), k)}

\* extract_text_from_file: a file is its extension, its text and whether the
\* reader of its format succeeds on it
extract_text_from_file(file) ==
  IF file.ext \in {".pdf", ".docx", ".txt"}
  THEN (IF file.readable THEN file.text
        ELSE "Error reading " \o Upper(Slice(file.ext, 2, Len(file.ext))) \o ": cannot open")
  ELSE "Unsupported file format: " \o file.ext
StartsWith(s, prefix) == Slice(s, 1, Len(prefix)) = prefix

\* the metadata dict of lines 404-413 and 330-339 (the searchable fields)
Metadata(c) ==
  [candidate_name |-> c.candidate_name, position |-> c.position, cv_text |-> c.cv_text,
   skills |-> c.skills, summary |-> c.summary]

\* the candidate_data dict of lines 380-390
candidate_data_of(candidate_name, position, cv_text) ==
  [candidate_name |-> candidate_name, position |-> position, cv_text |-> cv_text,
   skills |-> extract_skills(cv_text), summary |-> Slice(cv_text, 1, 500),
   status |-> ""]

\* add_cv_to_database: the new state and the result dict.  encode_ok = FALSE
\* is the embedder raising, caught by the except of line 422.
add_cv_to_database(ats, db_up, encode_ok, disk_ok, file, candidate_name, position) ==
  LET existing_candidate == cv_get_candidate_by_name(ats.candidates, db_up, candidate_name)
      cv_text == extract_text_from_file(file)
      candidate_data == candidate_data_of(candidate_name, position, cv_text)
      db_result == save_candidate_to_db(ats.candidates, db_up, candidate_data)
      stored == [ats EXCEPT !.candidates = db_result.cands]
      indexed ==
        [stored EXCEPT !.index = [present |-> TRUE, vectors |-> Append(ats.index.vectors, encode(cv_text))],
                       !.cv_metadata = Append(ats.cv_metadata, Metadata(candidate_data))]
  IN IF existing_candidate # 0
     THEN [ats |-> ats, success |-> FALSE,
           message |-> "Candidate " \o candidate_name \o " already exists in database"]
     ELSE IF StartsWith(cv_text, "Error")
     THEN [ats |-> ats, success |-> FALSE, message |-> cv_text]
     ELSE IF ~db_result.success
     THEN [ats |-> stored, success |-> FALSE, message |-> db_result.message]
     ELSE IF ~encode_ok
     THEN [ats |-> stored, success |-> FALSE, message |-> "Error processing CV: embedder unavailable"]
     ELSE [ats |-> save_index(indexed, disk_ok), success |-> TRUE, message |-> db_result.message]

\* no removal of duplicates: the variant C15 must reject
keep_all(docs, seen) == docs
\* the first document of each candidate_name + "_" + position key
RECURSIVE UniqueByKey(_, _)
UniqueByKey(docs, seen) ==
  IF docs = <<>> THEN <<>>
  ELSE LET key == Head(docs).candidate_name \o "_" \o Head(docs).position
       IN IF key \in seen THEN UniqueByKey(Tail(docs), seen)
          ELSE << Head(docs) >> \o UniqueByKey(Tail(docs), seen \cup {key})

\* _rebuild_vector_index_from_database
rebuild_vector_index_from_database(ats, db_up, encode_ok, disk_ok) ==
  LET cleared == [ats EXCEPT !.index = NoIndex, !.cv_metadata = <<>>]
      db_candidates == UniqueByKey(cv_get_all_candidates(ats.candidates, db_up), {})
      with_text == SelectSeq(db_candidates, LAMBDA c : c.cv_text # "")
      rebuilt ==
        [cleared EXCEPT !.index = [present |-> TRUE,
                                    vectors |-> [k \in 1..Len(with_text) |-> encode(with_text[k].cv_text)]],
                        !.cv_metadata = [k \in 1..Len(with_text) |-> Metadata(with_text[k])]]
  IN IF cv_get_all_candidates(ats.candidates, db_up) = <<>> THEN save_index(cleared, disk_ok)
     ELSE IF with_text = <<>> THEN save_index(cleared, disk_ok)
     ELSE IF ~encode_ok THEN cleared
     ELSE save_index(rebuilt, disk_ok)

\* delete_candidate
delete_candidate(ats, db_up, encode_ok, disk_ok, candidate_name) ==
  LET db_result == delete_candidate_from_db(ats.candidates, db_up, candidate_name)
      stored == [ats EXCEPT !.candidates = db_result.cands]
  IN IF db_result.success
     THEN [ats |-> rebuild_vector_index_from_database(stored, db_up, encode_ok, disk_ok),
           success |-> TRUE, message |-> db_result.message]
     ELSE [ats |-> ats, success |-> FALSE, message |-> db_result.message]
DefaultTopK == 5
\* items[:n]
Prefix(items, n) == SubSeq(items, 1, IF n > Len(items) THEN Len(items) ELSE n)
\* index.search(query_embedding, k): the k stored vectors nearest to the query,
\* nearest first (equal distances in index order), as (score, idx) pairs
RECURSIVE NearestFrom(_, _, _, _)
NearestFrom(vectors, qv, left, k) ==
  IF k = 0 \/ left = {} THEN <<>>
  ELSE LET best == CHOOSE i \in left :
                     \A j \in left : \/ L2(vectors[i], qv) < L2(vectors[j], qv)
                                     \/ (L2(vectors[i], qv) = L2(vectors[j], qv) /\ i <= j)
       IN << [score |-> L2(vectors[best], qv), idx |-> best] >>
          \o NearestFrom(vectors, qv, left \ {best}, k - 1)
\* db_candidate["similarity_score"] = float(score)
WithScore(c, score) ==
  [f \in DOMAIN c \cup {"similarity_score"} |-> IF f = "similarity_score" THEN score ELSE c[f]]
\* lines 191-214: one result per candidate_name, joined with the first database
\* candidate of that name, until top_k results are collected
RECURSIVE VectorLoop(_, _, _, _, _, _)
VectorLoop(hits, cv_metadata, db_candidates, seen_candidates, results, top_k) ==
  IF hits = <<>> THEN results
  ELSE LET idx == Head(hits).idx
           candidate_name == cv_metadata[idx].candidate_name
           j == FirstOf({n \in 1..Len(db_candidates) :
                           db_candidates[n].candidate_name = candidate_name})
           added == IF j = 0 THEN results
                    ELSE Append(results, WithScore(db_candidates[j], Head(hits).score))
       IN IF idx > Len(cv_metadata) \/ candidate_name \in seen_candidates
          THEN VectorLoop(Tail(hits), cv_metadata, db_candidates, seen_candidates, results, top_k)
          ELSE IF Len(added) >= top_k THEN added
          ELSE VectorLoop(Tail(hits), cv_metadata, db_candidates,
                          seen_candidates \cup {candidate_name}, added, top_k)
\* sorted(results, key=similarity_score): a stable insertion sort
RECURSIVE InsertByScore(_, _)
InsertByScore(sorted, r) ==
  IF sorted = <<>> THEN << r >>
  ELSE IF r.similarity_score < Head(sorted).similarity_score THEN << r >> \o sorted
  ELSE << Head(sorted) >> \o InsertByScore(Tail(sorted), r)
RECURSIVE SortByScore(_)
SortByScore(results) ==
  IF results = <<>> THEN <<>>
  ELSE InsertByScore(SortByScore(SubSeq(results, 1, Len(results) - 1)), results[Len(results)])

\* search_candidates
search_candidates(ats, db_up, encode_ok, query, top_k) ==
  LET db_candidates == UniqueByKey(cv_get_all_candidates(ats.candidates, db_up), {})
      n == Len(ats.cv_metadata)
      k == IF n < top_k * 2 THEN n ELSE top_k * 2
      hits == NearestFrom(ats.index.vectors, encode(query), 1..Len(ats.index.vectors), k)
      query_lower == Lower(query)
      matches(c) ==
        \/ Contains(Lower(c.cv_text), query_lower)
        \/ \E skill \in c.skills : Contains(Lower(skill), query_lower)
        \/ Contains(Lower(c.position), query_lower)
  IN IF db_candidates = <<>> THEN <<>>
     ELSE IF ats.index.present /\ n > 0
     THEN (IF ~encode_ok THEN <<>>
           ELSE Prefix(SortByScore(VectorLoop(hits, ats.cv_metadata, db_candidates, {}, <<>>, top_k)),
                       top_k))
     ELSE Prefix(SelectSeq(db_candidates, matches), top_k)

\* ATSTools.get_all_candidates
tools_get_all_candidates(ats, db_up) ==
  UniqueByKey(cv_get_all_candidates(ats.candidates, db_up), {})
(***************************************************************************)
(* HRAgent (graph.py): the nodes of the workflow                           *)
(***************************************************************************)
\* the dict {}
EmptyDict == << >>

\* process_query, lines 778-787
initial_state(user_query, user_context) ==
  [user_query |-> user_query, user_context |-> user_context, intent |-> "",
   tool_result |-> EmptyDict, final_response |-> "", permission_granted |-> FALSE,
   denied_reason |-> ""]

\* a gate list that forgets "hire": the variant the gate must differ from for C2
gate_keywords_without_hire == {"search", "candidate", "cv", "applicant", "recruit"}
ats_keywords == {"search", "candidate", "cv", "applicant", "hire", "recruit"}
gate_payroll_keywords == {"salary", "payroll", "calculate"}
admin_keywords == {"all employees", "list employees", "payroll report", "generate report"}

\* the ownership test with the token rule of _handle_payroll added: the
\* variant the gate must differ from for C4
token_matches_user(extracted_identifier, user_employee_id, user_name) ==
  \/ Upper(extracted_identifier) = user_employee_id
  \/ (user_name # "" /\ Contains(Lower(user_name), Lower(extracted_identifier)))
  \/ (user_name # "" /\ Contains(Lower(extracted_identifier), Lower(user_name)))
  \/ \E k \in 1..Len(Split(Lower(extracted_identifier))) :
       \E j \in 1..Len(Split(Lower(user_name))) :
         Split(Lower(extracted_identifier))[k] = Split(Lower(user_name))[j]
\* _check_permissions, lines 191-207: does the identifier found in the query
\* name the caller
gate_identifier_matches_user(extracted_identifier, user_employee_id, user_name) ==
  \/ Upper(extracted_identifier) = user_employee_id
  \/ (user_name # "" /\ Contains(Lower(user_name), Lower(extracted_identifier)))
  \/ (user_name # "" /\ Contains(Lower(extracted_identifier), Lower(user_name)))

OwnPayrollOnly(user_employee_id, user_name) ==
  "You can only access your own payroll information. Use your Employee ID '"
  \o user_employee_id \o "' or your name '" \o user_name \o "'."
AtsRestricted == "ATS access is restricted to HR Admin users only."
AdminOnly == "This function is available to HR Admin only."

granted(state) == [state EXCEPT !.permission_granted = TRUE]
denied(state, reason) ==
  [state EXCEPT !.permission_granted = FALSE, !.denied_reason = reason]
\* lines 188-218: the payroll rule, given the identifier found in the query
payroll_gate(state, extracted_identifier) ==
  IF extracted_identifier # None
  THEN (IF gate_identifier_matches_user(extracted_identifier, state.user_context.employee_id,
                                        state.user_context.name)
        THEN granted(state)
        ELSE denied(state, OwnPayrollOnly(state.user_context.employee_id,
                                          state.user_context.name)))
  ELSE granted(state)
\* lines 160-231, given the lowercased query
gate(state, query) ==
  IF state.user_context.role = "admin" THEN granted(state)
  ELSE IF state.user_context.role = "user" /\ ContainsAny(query, ats_keywords)
  THEN denied(state, AtsRestricted)
  ELSE IF state.user_context.role = "user" /\ ContainsAny(query, gate_payroll_keywords)
  THEN payroll_gate(state, extract_employee_id_or_name(query))
  ELSE IF ContainsAny(query, admin_keywords) THEN denied(state, AdminOnly)
  ELSE granted(state)
\* _check_permissions
check_permissions(state) == gate(state, Lower(state.user_query))

\* a router that lets every request through: the variant C7 must reject
always_allowed(state) == "classify_intent"
\* _permission_router and the edges of lines 57-64
permission_router(state) ==
  IF state.permission_granted THEN "classify_intent" ELSE "access_denied"

\* _access_denied
access_denied(state) ==
  [state EXCEPT !.final_response =
     "Access Denied Hello " \o state.user_context.name \o ", " \o state.denied_reason
     \o " As a regular user, you can: Check your own salary: 'Calculate salary for "
     \o state.user_context.employee_id \o "'"]

classify_ats_keywords == {"search", "candidate", "cv", "applicant", "hire", "recruit"}
classify_payroll_keywords == {"salary", "payroll", "calculate", "employee", "report"}
\* a classifier that looks for the payroll keywords first
intent_payroll_first(query) ==
  IF ContainsAny(query, classify_payroll_keywords) THEN "payroll"
  ELSE IF ContainsAny(query, classify_ats_keywords) THEN "ats"
  ELSE "general"
\* _classify_intent
intent_of(query) ==
  IF ContainsAny(query, classify_ats_keywords) THEN "ats"
  ELSE IF ContainsAny(query, classify_payroll_keywords) THEN "payroll"
  ELSE "general"
classify_intent(state) == [state EXCEPT !.intent = intent_of(Lower(state.user_query))]

\* an edge from the classifier to the denial node: the variant C6 must reject
route_to_denied(state) ==
  IF state.intent = "ats" THEN "handle_ats"
  ELSE IF state.intent = "payroll" THEN "handle_payroll"
  ELSE "access_denied"
\* _route_based_on_intent and the edges of lines 65-73
route_based_on_intent(state) ==
  IF state.intent = "ats" THEN "handle_ats"
  ELSE IF state.intent = "payroll" THEN "handle_payroll"
  ELSE "generate_response"

\* _extract_search_terms
search_stop_words == {"search", "for", "find", "candidates", "candidate", "who", "with", "have", "are"}
extract_search_terms(query) ==
  Join(SelectSeq(Split(Lower(query)), LAMBDA w : w \notin search_stop_words))

\* _extract_department; None is ""
departments == << "IT", "HR", "Finance", "Marketing" >>
extract_department(query) ==
  LET hit == FirstOf({k \in 1..Len(departments) : Contains(Lower(query), Lower(departments[k]))})
  IN IF hit = 0 THEN None ELSE departments[hit]

ExceptionText == "unexpected failure"

\* lines 289-304, given the lowercased query
ats_result(state, ats, db_up, encode_ok, query) ==
  IF Contains(query, "search") \/ Contains(query, "find")
  THEN [type |-> "candidate_search",
        results |-> search_candidates(ats, db_up, encode_ok,
                                      extract_search_terms(state.user_query), DefaultTopK)]
  ELSE IF Contains(query, "all candidates") \/ Contains(query, "list candidates")
  THEN [type |-> "all_candidates", results |-> tools_get_all_candidates(ats, db_up)]
  ELSE [type |-> "ats_help",
        message |-> "I can help you with: searching candidates, viewing all candidates, or managing CV applications."]
\* _handle_ats; raises = TRUE is a step of the try block raising, which the
\* except of line 306 turns into an error result
handle_ats(state, ats, db_up, encode_ok, raises) ==
  IF raises
  THEN [state EXCEPT !.tool_result = [type |-> "error", message |-> "ATS error: " \o ExceptionText]]
  ELSE [state EXCEPT !.tool_result = ats_result(state, ats, db_up, encode_ok, Lower(state.user_query))]

\* _handle_payroll, lines 336-354: does the identifier name the caller
handler_identifier_matches_user(emp_identifier, user_employee_id, user_name) ==
  LET user_name_lower == Lower(user_name)
      identifier_lower == Lower(emp_identifier)
      name_parts == Split(user_name_lower)
      identifier_parts == Split(identifier_lower)
  IN IF Upper(emp_identifier) = user_employee_id THEN TRUE
     ELSE /\ user_name # ""
          /\ \/ Contains(user_name_lower, identifier_lower)
             \/ Contains(identifier_lower, user_name_lower)
             \/ \E k \in 1..Len(name_parts) : Contains(identifier_lower, name_parts[k])
             \/ \E k \in 1..Len(identifier_parts) : Contains(user_name_lower, identifier_parts[k])

\* the branch of _handle_payroll a query takes (the if/elif chain of lines
\* 323, 393, 406, 422, 431)
payroll_branch(query, user_role) ==
  IF Contains(query, "calculate salary") \/ Contains(query, "salary for")
     \/ Contains(query, "salary") \/ Contains(query, "payroll") THEN "salary"
  ELSE IF Contains(query, "payroll report") \/ Contains(query, "generate report")
          \/ Contains(query, "report") THEN "report"
  ELSE IF Contains(query, "all employees") \/ Contains(query, "list employees")
          \/ Contains(query, "show employees") THEN "employees"
  ELSE IF Contains(query, "debug") /\ user_role = "admin" THEN "debug"
  ELSE "help"

\* a handler that reports the first calculation, whatever it answers
first_result(state, emps, db_up, emp_identifier, result) == result
\* lines 368-379: the calculation, tried again with the caller's own ID when
\* it fails for a caller who is not an admin
salary_or_own(state, emps, db_up, emp_identifier, result) ==
  IF /\ HasError(result) /\ state.user_context.role # "admin"
     /\ emp_identifier # state.user_context.employee_id
  THEN tools_calculate_salary(emps, db_up, state.user_context.employee_id)
  ELSE result
\* lines 364-391
salary_calculation_for(state, emps, db_up, emp_identifier) ==
  IF emp_identifier # None
  THEN [type |-> "salary_calculation",
        result |-> salary_or_own(state, emps, db_up, emp_identifier,
                                 tools_calculate_salary(emps, db_up, emp_identifier))]
  ELSE [type |-> "error",
        message |-> "Please specify your employee ID '" \o state.user_context.employee_id
                    \o "' or use your name '" \o state.user_context.name \o "'"]
\* lines 327-362: the access control of the callers who are not admins
salary_for_extracted(state, emps, db_up, extracted) ==
  IF /\ state.user_context.role # "admin" /\ extracted # None
     /\ ~handler_identifier_matches_user(extracted, state.user_context.employee_id,
                                         state.user_context.name)
  THEN [type |-> "error",
        message |-> "Access denied. You can only access your own payroll information. Use '"
                    \o state.user_context.employee_id \o "' or '"
                    \o state.user_context.name \o "'"]
  ELSE salary_calculation_for(state, emps, db_up,
         IF state.user_context.role # "admin" /\ extracted = None
         THEN state.user_context.employee_id ELSE extracted)
\* lines 323-391
payroll_salary_result(state, emps, db_up) ==
  salary_for_extracted(state, emps, db_up, extract_employee_id_or_name(state.user_query))

\* a report branch without its role test: the variant C3 must reject
report_for_anyone(state, emps, db_up) ==
  [type |-> "payroll_report",
   result |-> [department |-> "All Departments", total_employees |-> Len(emps),
               total_net_salary |-> 0, employees |-> emps]]
\* lines 393-404
payroll_report_result(state, emps, db_up) ==
  IF state.user_context.role = "admin"
  THEN [type |-> "payroll_report",
        result |-> tools_generate_payroll_report(emps, db_up, extract_department(state.user_query))]
  ELSE [type |-> "error", message |-> "Payroll reports are available to HR Admin only"]

\* lines 410-415
employees_result(results) ==
  IF ~HasError(results[1])
  THEN [type |-> "all_employees", results |-> results]
  ELSE [type |-> "error", message |-> results[1].error]
\* lines 406-420
payroll_employees_result(state, emps, db_up) ==
  IF state.user_context.role = "admin"
  THEN employees_result(tools_get_all_employees(emps, db_up))
  ELSE [type |-> "error", message |-> "Employee list is available to HR Admin only"]

\* lines 422-429: debug_employee_data of the active employees
debug_info(all_employees) ==
  [total_employees |-> Len(all_employees),
   employee_ids |-> [k \in 1..Len(all_employees) |-> all_employees[k].employee_id]]
payroll_debug_result(state, emps, db_up) ==
  [type |-> "debug_info", result |-> debug_info(get_all_employees(emps, db_up))]

\* lines 431-451
payroll_help_result(state) ==
  [type |-> "payroll_help",
   message |-> IF state.user_context.role = "admin"
               THEN "I can help you with: 'Calculate salary for [Employee ID or Name]' 'Generate payroll report' 'Show all employees' 'Generate payroll report for [Department]'"
               ELSE "I can help you check your salary: 'Calculate salary for "
                    \o state.user_context.employee_id \o "' 'Calculate salary for "
                    \o state.user_context.name \o "' 'Show my payroll details' 'Calculate my salary'"]

\* the body of the branch taken
payroll_result(state, emps, db_up, branch) ==
  IF branch = "salary" THEN payroll_salary_result(state, emps, db_up)
  ELSE IF branch = "report" THEN payroll_report_result(state, emps, db_up)
  ELSE IF branch = "employees" THEN payroll_employees_result(state, emps, db_up)
  ELSE IF branch = "debug" THEN payroll_debug_result(state, emps, db_up)
  ELSE payroll_help_result(state)
\* _handle_payroll; raises = TRUE is a step of the outer try block raising,
\* which the except of line 453 turns into an error result
handle_payroll(state, emps, db_up, raises) ==
  IF raises
  THEN [state EXCEPT !.tool_result =
          [type |-> "error", message |-> "Payroll system error: " \o ExceptionText]]
  ELSE [state EXCEPT !.tool_result =
          payroll_result(state, emps, db_up,
                         payroll_branch(Lower(state.user_query), state.user_context.role))]

\* ', '.join(items)
RECURSIVE CommaJoin(_)
CommaJoin(items) ==
  IF items = << >> THEN ""
  ELSE IF Len(items) = 1 THEN items[1]
  ELSE items[1] \o ", " \o CommaJoin(Tail(items))

\* the line of one candidate in a listing (lines 643-656 and 667-671); the
\* skills are list(set(...)), shown in no fixed order: the line keeps their number
CandidateLine(candidate) ==
  candidate.candidate_name \o " - " \o candidate.position
  \o " Skills: " \o ToString(Cardinality(candidate.skills))
\* the line of one employee (lines 723 and 735-737)
EmployeeLine(emp) == emp.name \o " (" \o emp.employee_id \o ")"
Lines(items, Line(_)) == CommaJoin([k \in 1..Len(items) |-> Line(items[k])])

\* _format_tool_result
format_tool_result(tool_result, user_role) ==
  LET result_type == Get(tool_result, "type", "unknown")
  IN IF result_type = "candidate_search"
     THEN (IF tool_result.results = << >>
           THEN "No candidates found matching your search criteria."
           ELSE "Found " \o ToString(Len(tool_result.results)) \o " candidates: "
                \o Lines(tool_result.results, CandidateLine))
     ELSE IF result_type = "all_candidates"
     THEN (IF tool_result.results = << >>
           THEN "No candidates in the database."
           ELSE "All Candidates (" \o ToString(Len(tool_result.results)) \o " total): "
                \o Lines(tool_result.results, CandidateLine))
     ELSE IF result_type = "salary_calculation"
     THEN (IF HasError(tool_result.result)
           THEN "Error: " \o tool_result.result.error
           ELSE "Salary Calculation for " \o tool_result.result.name
                \o " Employee ID: " \o tool_result.result.employee_id
                \o " Gross Salary: Rs. " \o ToString(tool_result.result.gross_salary)
                \o " Tax Amount: Rs. " \o ToString(tool_result.result.tax_amount)
                \o " Net Salary: Rs. " \o ToString(tool_result.result.net_salary))
     ELSE IF result_type = "payroll_report"
     THEN (IF HasError(tool_result.result)
           THEN "Error: " \o tool_result.result.error
           ELSE "Payroll Report - " \o tool_result.result.department
                \o " Total Employees: " \o ToString(tool_result.result.total_employees)
                \o " Total Net Salary: Rs. " \o ToString(tool_result.result.total_net_salary)
                \o " Employee Details: " \o Lines(tool_result.result.employees, EmployeeLine))
     ELSE IF result_type = "all_employees"
     THEN (IF tool_result.results = << >>
           THEN "No employees found."
           ELSE "All Employees (" \o ToString(Len(tool_result.results)) \o " total): "
                \o Lines(tool_result.results, EmployeeLine))
     ELSE IF result_type = "error"
     THEN "Error: " \o Get(tool_result, "message", "Unknown error occurred")
     ELSE Get(tool_result, "message", "Task completed successfully.")

\* _generate_general_response
generate_general_response(query, user_name, user_role) ==
  LET query_lower == Lower(query)
  IN IF user_role = "admin"
     THEN "Hello " \o user_name \o "! As an HR Admin, you have full access. How can I help you today?"
     ELSE IF ContainsAny(query_lower, {"policy", "policies", "company policy"})
     THEN "Company HR Policies - " \o user_name
     ELSE IF ContainsAny(query_lower, {"help", "procedure", "procedures", "process"})
     THEN "HR Procedures & Help - " \o user_name \o " Check Your Salary: 'Calculate salary for "
          \o user_name \o "'"
     ELSE IF ContainsAny(query_lower, {"benefit", "benefits", "allowance", "allowances"})
     THEN "Employee Benefits & Allowances - " \o user_name
     ELSE "Hello " \o user_name \o "! Welcome to HR Assistant 'Calculate salary for "
          \o user_name \o "' 'Show my payroll details' 'Calculate my salary'"

\* _generate_response
generate_response(state) ==
  [state EXCEPT !.final_response =
     IF state.intent = "general"
     THEN generate_general_response(state.user_query, state.user_context.name,
                                    state.user_context.role)
     ELSE format_tool_result(state.tool_result, state.user_context.role)]
(***************************************************************************)
(* The inputs                                                              *)
(***************************************************************************)
\* session users (app.py hands session['user'] to process_query)
User(role, employee_id, name) == [role |-> role, employee_id |-> employee_id, name |-> name]
Callers ==
  { User("admin", "ADM001", "Sara Fernando"),
    User("user", "EMP001", "Kamal Perera"),
    User("user", "EMP002", "Nimal Perera"),
    User("user", "EMP003", "Shireen Silva"),
    User("manager", "EMP002", "Nimal Perera") }

\* what callers ask for, and whom they ask about
Commands ==
  { "calculate salary for", "salary for", "generate payroll report", "monthly report",
    "list employees",
    "search java", "list candidates", "hire", "debug", "hello", "show my payroll report" }
Identifiers ==
  { "Kamal Perera", "Nimal Perera", "Shireen Silva", "Perera", "Perera Nimal",
    "EMP001", "emp002" }
Phrases == Commands \cup Identifiers
\* a query is a phrase followed by identifiers, MaxPhrases phrases at most,
\* joined by single blanks
MaxPhrases == 2
RECURSIVE QueriesOf(_)
QueriesOf(n) ==
  IF n = 1 THEN Phrases
  ELSE QueriesOf(n - 1) \cup { q \o " " \o p : q \in QueriesOf(n - 1), p \in Identifiers }
Queries == QueriesOf(MaxPhrases)

\* the resume files of the fixture
TxtFile(text) == [ext |-> ".txt", text |-> text, readable |-> TRUE]
\* the index a running service holds after two uploads
SampleAts ==
  add_cv_to_database(
    add_cv_to_database(EmptyAts, TRUE, TRUE, TRUE, TxtFile("java python developer"),
                       "Alice", "Developer").ats,
    TRUE, TRUE, TRUE, TxtFile("python tester"), "Bob", "Tester").ats

\* what can fail while a handler runs: the backing store, the embedder, or a
\* step of the handler itself
Faults == {"none", "db", "encode", "step"}

(***************************************************************************)
(* The state machine                                                       *)
(***************************************************************************)
VARIABLES
  pc,         \* the node process_query is about to run
  state,      \* the AgentState of the run
  visited,    \* the nodes run so far, in order
  returned,   \* the text process_query returned
  fault,      \* what failed while the handler ran
  employees,  \* the employees collection
  ats,        \* ATSTools: the candidates collection, the index, its metadata and files
  last,       \* the last ATSTools operation and its result
  plan,       \* what the nodes return for the request of the run, when planned
  threads,    \* the request threads inside ATSTools: each one's call and position
  calls       \* the ATSTools calls started by request threads
vars == << pc, state, visited, returned, fault, employees, ats, last, plan, threads, calls >>

NoRequest == initial_state("", User("", "", ""))
NoOp == [op |-> "none"]
NoPlan == << >>
\* the request threads of the server (app.run serves each request in a thread
\* of its own, all on the one hr_agent of app.py line 48)
Workers == {"w1", "w2"}
Idle == [id |-> 0, op |-> "none", pc |-> "idle", args |-> << >>, local |-> << >>, result |-> << >>]
NoThreads == [t \in Workers |-> Idle]

Init ==
  /\ pc = "idle"
  /\ state = NoRequest
  /\ visited = << >>
  /\ returned = ""
  /\ fault = "none"
  /\ employees = SampleEmployees
  /\ ats = SampleAts
  /\ last = NoOp
  /\ plan = NoPlan
  /\ threads = NoThreads
  /\ calls = 0

\* process_query, lines 778-790: the initial state enters the graph at its
\* entry point
ProcessQueryWith(user_query, user_context, planned) ==
  /\ pc = "idle"
  /\ state' = initial_state(user_query, user_context)
  /\ pc' = "check_permissions"
  /\ plan' = planned
  /\ UNCHANGED << visited, returned, fault, employees, ats, last, threads, calls >>
ProcessQuery(user_query, user_context) ==
  ProcessQueryWith(user_query, user_context, NoPlan)

\* a node of the graph: the state the node returns, and where its edge leads
CheckPermissionsTo(result) ==
  /\ pc = "check_permissions"
  /\ state' = result
  /\ pc' = permission_router(result)
  /\ visited' = Append(visited, "check_permissions")
  /\ UNCHANGED << returned, fault, employees, ats, last, plan, threads, calls >>
CheckPermissions == CheckPermissionsTo(check_permissions(state))

AccessDenied ==
  /\ pc = "access_denied"
  /\ state' = access_denied(state)
  /\ pc' = "END"
  /\ visited' = Append(visited, "access_denied")
  /\ UNCHANGED << returned, fault, employees, ats, last, plan, threads, calls >>

ClassifyIntentTo(result) ==
  /\ pc = "classify_intent"
  /\ state' = result
  /\ pc' = route_based_on_intent(result)
  /\ visited' = Append(visited, "classify_intent")
  /\ UNCHANGED << returned, fault, employees, ats, last, plan, threads, calls >>
ClassifyIntent == ClassifyIntentTo(classify_intent(state))

HandleAtsTo(f, result) ==
  /\ pc = "handle_ats"
  /\ fault' = f
  /\ state' = result
  /\ pc' = "generate_response"
  /\ visited' = Append(visited, "handle_ats")
  /\ UNCHANGED << returned, employees, ats, last, plan, threads, calls >>
HandleAts ==
  \E f \in Faults :
    HandleAtsTo(f, handle_ats(state, ats, f # "db", f # "encode", f = "step"))

HandlePayrollTo(f, result) ==
  /\ pc = "handle_payroll"
  /\ fault' = f
  /\ state' = result
  /\ pc' = "generate_response"
  /\ visited' = Append(visited, "handle_payroll")
  /\ UNCHANGED << returned, employees, ats, last, plan, threads, calls >>
HandlePayroll ==
  \E f \in Faults \ {"encode"} :
    HandlePayrollTo(f, handle_payroll(state, employees, f # "db", f = "step"))

GenerateResponseTo(result) ==
  /\ pc = "generate_response"
  /\ state' = result
  /\ pc' = "END"
  /\ visited' = Append(visited, "generate_response")
  /\ UNCHANGED << returned, fault, employees, ats, last, plan, threads, calls >>
GenerateResponse == GenerateResponseTo(generate_response(state))

\* process_query, line 793
Return ==
  /\ pc = "END"
  /\ returned' = state.final_response
  /\ pc' = "done"
  /\ UNCHANGED << state, visited, fault, employees, ats, last, plan, threads, calls >>

Step ==
  \/ CheckPermissions
  \/ AccessDenied
  \/ ClassifyIntent
  \/ HandleAts
  \/ HandlePayroll
  \/ GenerateResponse
  \/ Return

Next ==
  \/ \E q \in Queries, c \in Callers : ProcessQuery(q, c)
  \/ Step

Spec == Init /\ [][Next]_vars

(***************************************************************************)
(* The runs of the one-phrase requests, under the scheduling of            *)
(* graph.invoke: a run that has started keeps running its nodes until END  *)
(***************************************************************************)
\* what each node returns for a request, node after node
handler_result(routed, f) ==
  IF route_based_on_intent(routed) = "handle_ats"
  THEN handle_ats(routed, SampleAts, f # "db", f # "encode", f = "step")
  ELSE IF route_based_on_intent(routed) = "handle_payroll"
  THEN handle_payroll(routed, SampleEmployees, f # "db", f = "step")
  ELSE routed
plan_of_handled(checked, classified, handled) ==
  [ checked |-> checked, classified |-> classified, handled |-> handled,
    responded |-> [f \in Faults |-> generate_response(handled[f])] ]
plan_of_classified(checked, classified) ==
  plan_of_handled(checked, classified,
                  [f \in Faults |-> handler_result(classified, f)])
plan_of_checked(checked) == plan_of_classified(checked, classify_intent(checked))
plan_of(user_query, user_context) ==
  plan_of_checked(check_permissions(initial_state(user_query, user_context)))
PlannedQuery(user_query, user_context) ==
  ProcessQueryWith(user_query, user_context, plan_of(user_query, user_context))

OnePhraseNext ==
  \/ \E q \in Phrases, c \in Callers : PlannedQuery(q, c)
  \/ Step

\* Step, each node's result read from the plan of the run
Advance ==
  \/ CheckPermissionsTo(plan.checked)
  \/ AccessDenied
  \/ ClassifyIntentTo(plan.classified)
  \/ \E f \in Faults : HandleAtsTo(f, plan.handled[f])
  \/ \E f \in Faults \ {"encode"} : HandlePayrollTo(f, plan.handled[f])
  \/ GenerateResponseTo(plan.responded[fault])
  \/ Return
\* the steps of a planned run are the steps its plan gives
AdvanceIsStep == [][Step <=> Advance]_vars

FairSpec == Init /\ [][OnePhraseNext]_vars /\ WF_vars(Advance)

(***************************************************************************)
(* The candidate store under uploads and deletions                         *)
(***************************************************************************)
CandidateNames == {"Alice", "Bob"}
Positions == {"Developer", "Tester"}
Files ==
  { TxtFile("java developer"),
    [ext |-> ".txt", text |-> "", readable |-> FALSE] }
\* what can fail during one call: the backing store, the embedder, the disk
CallFaults == {"none", "db", "encode", "disk"}
\* the documents the collection may hold
MaxCandidates == 2

InitATS ==
  /\ pc = "idle"
  /\ state = NoRequest
  /\ visited = << >>
  /\ returned = ""
  /\ fault = "none"
  /\ employees = SampleEmployees
  /\ ats = EmptyAts
  /\ last = NoOp
  /\ plan = NoPlan
  /\ threads = NoThreads
  /\ calls = 0

AddCandidateTo(file, candidate_name, position, f, result) ==
  /\ ats' = result.ats
  /\ last' = [op |-> "add", candidate_name |-> candidate_name, position |-> position,
              file |-> file, fault |-> f, success |-> result.success,
              message |-> result.message, before |-> ats]
  /\ UNCHANGED << pc, state, visited, returned, fault, employees, plan, threads, calls >>
AddCandidate ==
  /\ Len(ats.candidates) < MaxCandidates
  /\ \E file \in Files, candidate_name \in CandidateNames, position \in Positions,
        f \in CallFaults :
       AddCandidateTo(file, candidate_name, position, f,
                      add_cv_to_database(ats, f # "db", f # "encode", f # "disk",
                                         file, candidate_name, position))

DeleteCandidateTo(candidate_name, f, result) ==
  /\ ats' = result.ats
  /\ last' = [op |-> "delete", candidate_name |-> candidate_name, fault |-> f,
              success |-> result.success, message |-> result.message, before |-> ats]
  /\ UNCHANGED << pc, state, visited, returned, fault, employees, plan, threads, calls >>
DeleteCandidate ==
  \E candidate_name \in CandidateNames, f \in CallFaults :
    DeleteCandidateTo(candidate_name, f,
                      delete_candidate(ats, f # "db", f # "encode", f # "disk", candidate_name))

NextATS == AddCandidate \/ DeleteCandidate
SpecATS == InitATS /\ [][NextATS]_vars

(***************************************************************************)
(* The candidate store under the uploads the upload endpoint lets through  *)
(* (app.py, lines 190-209: .pdf, .docx, .doc and .txt files of any content)*)
(***************************************************************************)
DocFile(text) == [ext |-> ".doc", text |-> text, readable |-> TRUE]
UploadFiles == { TxtFile("java developer"), TxtFile(""), DocFile("java developer") }
UploadCandidate ==
  /\ Len(ats.candidates) < MaxCandidates
  /\ \E file \in UploadFiles, candidate_name \in CandidateNames :
       AddCandidateTo(file, candidate_name, "Developer", "none",
                      add_cv_to_database(ats, TRUE, TRUE, TRUE, file, candidate_name,
                                         "Developer"))
NextUploads == UploadCandidate \/ DeleteCandidate
SpecUploads == InitATS /\ [][NextUploads]_vars

(***************************************************************************)
(* ATSTools under concurrent requests.  The methods hold no lock: a step   *)
(* is one call to the collection or one assignment to self.index or        *)
(* self.cv_metadata, and the steps of two threads interleave freely.       *)
(***************************************************************************)
\* the calls a thread may start, in all
MaxCalls == 3
ConcurrentUploads == { [file |-> TxtFile("java developer"), candidate_name |-> "Carol",
                        position |-> "Developer"] }
ConcurrentDeletions == { [candidate_name |-> "Alice"] }
ConcurrentSearches == { [query |-> "java", top_k |-> DefaultTopK] }

InitConcurrent ==
  /\ pc = "idle"
  /\ state = NoRequest
  /\ visited = << >>
  /\ returned = ""
  /\ fault = "none"
  /\ employees = SampleEmployees
  /\ ats = SampleAts
  /\ last = NoOp
  /\ plan = NoPlan
  /\ threads = NoThreads
  /\ calls = 0

\* the thread at its next statement, and the thread returning from its call
Goto(w, label, local) == [w EXCEPT !.pc = label, !.local = local]
Returning(w, result) == [w EXCEPT !.pc = "returned", !.local = << >>, !.result = result]
\* the pair a search reads: self.index and self.cv_metadata
IndexPair(a) == [index |-> a.index, cv_metadata |-> a.cv_metadata]
\* the calls that are inside a rebuild, self.index cleared and
\* self.cv_metadata not yet set again (lines 301-349)
MidRebuild ==
  { threads[u].id : u \in { v \in Workers :
      threads[v].pc \in {"clear_metadata", "load", "set_index", "set_metadata"} } }

\* a request thread enters a method of ATSTools
StartCall(t, op, args, label) ==
  /\ threads[t].pc \in {"idle", "returned"}
  /\ calls < MaxCalls
  /\ calls' = calls + 1
  /\ threads' = [threads EXCEPT ![t] = [id |-> calls + 1, op |-> op, pc |-> label,
                                        args |-> args, local |-> << >>, result |-> << >>]]
  /\ UNCHANGED << pc, state, visited, returned, fault, employees, ats, last, plan >>
StartAdd(t) == \E args \in ConcurrentUploads : StartCall(t, "add", args, "add_check")
StartDelete(t) == \E args \in ConcurrentDeletions : StartCall(t, "delete", args, "db_delete")
StartSearch(t) == \E args \in ConcurrentSearches : StartCall(t, "search", args, "search_find")

\* a step that changes the thread only, and one that changes the object too
Local(t, w) ==
  /\ threads' = [threads EXCEPT ![t] = w]
  /\ UNCHANGED << pc, state, visited, returned, fault, employees, ats, last, plan, calls >>
Shared(t, w, a) ==
  /\ threads' = [threads EXCEPT ![t] = w]
  /\ ats' = a
  /\ UNCHANGED << pc, state, visited, returned, fault, employees, last, plan, calls >>

\* add_cv_to_database, lines 362-390: the lookup by name, then the extraction
AddCheckOf(w, cv_text) ==
  IF cv_get_candidate_by_name(ats.candidates, TRUE, w.args.candidate_name) # 0
  THEN Returning(w, [success |-> FALSE,
                     message |-> "Candidate " \o w.args.candidate_name
                                 \o " already exists in database"])
  ELSE IF StartsWith(cv_text, "Error")
  THEN Returning(w, [success |-> FALSE, message |-> cv_text])
  ELSE Goto(w, "save_find",
            [candidate_data |-> candidate_data_of(w.args.candidate_name, w.args.position, cv_text)])
AddCheck(t) ==
  /\ threads[t].pc = "add_check"
  /\ Local(t, AddCheckOf(threads[t], extract_text_from_file(threads[t].args.file)))

\* save_candidate_to_db, lines 17-27: find_one by name, position and status
SaveFindOf(w, db_result) ==
  IF db_result.success
  THEN Goto(w, "save_insert", [w.local EXCEPT !.candidate_data.status = "active"])
  ELSE Returning(w, [success |-> FALSE, message |-> db_result.message])
SaveFind(t) ==
  /\ threads[t].pc = "save_find"
  /\ Local(t, SaveFindOf(threads[t],
                         save_candidate_to_db(ats.candidates, TRUE,
                                              threads[t].local.candidate_data)))
\* save_candidate_to_db, lines 30-33: insert_one
SaveInsert(t) ==
  /\ threads[t].pc = "save_insert"
  /\ Shared(t, Goto(threads[t], "index_add", threads[t].local),
            [ats EXCEPT !.candidates = Append(ats.candidates, threads[t].local.candidate_data)])
\* add_cv_to_database, lines 397-402: the index is created if there is none,
\* and the embedding is added
IndexAdd(t) ==
  /\ threads[t].pc = "index_add"
  /\ Shared(t, Goto(threads[t], "metadata_append", threads[t].local),
            [ats EXCEPT !.index =
               [present |-> TRUE,
                vectors |-> Append(ats.index.vectors,
                                   encode(threads[t].local.candidate_data.cv_text))]])
\* line 413
MetadataAppend(t) ==
  /\ threads[t].pc = "metadata_append"
  /\ Shared(t, Goto(threads[t], "save_added", threads[t].local),
            [ats EXCEPT !.cv_metadata =
               Append(ats.cv_metadata, Metadata(threads[t].local.candidate_data))])
\* lines 415-419
SaveAdded(t) ==
  /\ threads[t].pc = "save_added"
  /\ Shared(t, Returning(threads[t],
                         [success |-> TRUE,
                          message |-> "Candidate " \o threads[t].args.candidate_name
                                      \o " added successfully"]),
            save_index(ats, TRUE))

\* delete_candidate, lines 280-287: update_one, and the rebuild on success
DbDeleteOf(w, db_result) ==
  IF db_result.success
  THEN Goto(w, "clear_index", [db_result |-> [success |-> TRUE, message |-> db_result.message]])
  ELSE Returning(w, [success |-> FALSE, message |-> db_result.message])
DbDeleteTo(t, db_result) ==
  /\ threads[t].pc = "db_delete"
  /\ Shared(t, DbDeleteOf(threads[t], db_result), [ats EXCEPT !.candidates = db_result.cands])
DbDelete(t) ==
  DbDeleteTo(t, delete_candidate_from_db(ats.candidates, TRUE, threads[t].args.candidate_name))
\* _rebuild_vector_index_from_database, line 301
ClearIndex(t) ==
  /\ threads[t].pc = "clear_index"
  /\ Shared(t, Goto(threads[t], "clear_metadata",
                    [db_result |-> threads[t].local.db_result, before |-> IndexPair(ats)]),
            [ats EXCEPT !.index = NoIndex])
\* line 302
ClearMetadata(t) ==
  /\ threads[t].pc = "clear_metadata"
  /\ Shared(t, Goto(threads[t], "load", threads[t].local),
            [ats EXCEPT !.cv_metadata = << >>])
\* lines 305-343: the active documents are read and embedded; with nothing
\* to index the method saves (nothing, as there is no index) and returns
LoadOf(w, rebuilt) ==
  IF rebuilt.index.present
  THEN Goto(w, "set_index", [db_result |-> w.local.db_result, before |-> w.local.before,
                             rebuilt |-> IndexPair(rebuilt)])
  ELSE Returning(w, [success |-> TRUE, message |-> w.local.db_result.message,
                     before |-> w.local.before, after |-> IndexPair(ats)])
Load(t) ==
  /\ threads[t].pc = "load"
  /\ Local(t, LoadOf(threads[t], rebuild_vector_index_from_database(ats, TRUE, TRUE, TRUE)))
\* lines 347-348
SetIndex(t) ==
  /\ threads[t].pc = "set_index"
  /\ Shared(t, Goto(threads[t], "set_metadata", threads[t].local),
            [ats EXCEPT !.index = threads[t].local.rebuilt.index])
\* line 349
SetMetadata(t) ==
  /\ threads[t].pc = "set_metadata"
  /\ Shared(t, Goto(threads[t], "save_rebuilt", threads[t].local),
            [ats EXCEPT !.cv_metadata = threads[t].local.rebuilt.cv_metadata])
\* line 354, and the return of delete_candidate
SaveRebuiltTo(t, saved) ==
  /\ threads[t].pc = "save_rebuilt"
  /\ Shared(t, Returning(threads[t],
                         [success |-> TRUE, message |-> threads[t].local.db_result.message,
                          before |-> threads[t].local.before, after |-> IndexPair(saved)]),
            saved)
SaveRebuilt(t) == SaveRebuiltTo(t, save_index(ats, TRUE))

\* search_candidates, lines 164-177: the active documents are read
SearchFindOf(w, cands) ==
  IF cv_get_all_candidates(cands, TRUE) = << >>
  THEN Returning(w, [results |-> << >>, seen |-> << >>, during |-> {}])
  ELSE Goto(w, "search_index", [candidates |-> cands])
SearchFind(t) ==
  /\ threads[t].pc = "search_find"
  /\ Local(t, SearchFindOf(threads[t], ats.candidates))
\* lines 180-239: self.index and self.cv_metadata are read, and the results
\* are those of the documents read before
SearchIndexTo(t, results) ==
  /\ threads[t].pc = "search_index"
  /\ Local(t, Returning(threads[t],
                        [results |-> results, seen |-> IndexPair(ats), during |-> MidRebuild]))
SearchIndex(t) ==
  SearchIndexTo(t, search_candidates([ats EXCEPT !.candidates = threads[t].local.candidates],
                                     TRUE, TRUE, threads[t].args.query, threads[t].args.top_k))

WorkerStep(t) ==
  \/ StartAdd(t) \/ AddCheck(t) \/ SaveFind(t) \/ SaveInsert(t)
  \/ IndexAdd(t) \/ MetadataAppend(t) \/ SaveAdded(t)
  \/ StartDelete(t) \/ DbDelete(t) \/ ClearIndex(t) \/ ClearMetadata(t) \/ Load(t)
  \/ SetIndex(t) \/ SetMetadata(t) \/ SaveRebuilt(t)
  \/ StartSearch(t) \/ SearchFind(t) \/ SearchIndex(t)
NextConcurrent == \E t \in Workers : WorkerStep(t)
SpecConcurrent == InitConcurrent /\ [][NextConcurrent]_vars

(***************************************************************************)
(* Salary calculations over the employees collection                       *)
(***************************************************************************)
\* the collection with other status flags: a document is active or not
WithStatus(emps, statuses) ==
  [i \in 1..Len(emps) |-> [emps[i] EXCEPT !.status = statuses[i]]]
EmployeeCollections ==
  { WithStatus(SampleEmployees, statuses) :
      statuses \in [1..Len(SampleEmployees) -> {"active", "inactive"}] }
\* the components calculate_salary reads with a default
OptionalFields == {"salary", "bonus", "tax_rate", "deductions"}
\* a document stored without some of its fields
Without(employee, fields) == [f \in DOMAIN employee \ fields |-> employee[f]]
\* the collections one of whose documents lacks some optional fields: the
\* documents are inserted as the JSON file gives them
SparseCollections ==
  { [emps EXCEPT ![i] = Without(emps[i], fields)] :
      emps \in EmployeeCollections, i \in 1..Len(SampleEmployees),
      fields \in SUBSET OptionalFields }
\* the IDs asked for: those of the documents and one of no document
EmployeeIds == { SampleEmployees[i].employee_id : i \in 1..Len(SampleEmployees) } \cup {"EMP999"}

InitPayroll ==
  /\ pc = "idle"
  /\ state = NoRequest
  /\ visited = << >>
  /\ returned = ""
  /\ fault = "none"
  /\ employees \in SparseCollections
  /\ ats = EmptyAts
  /\ last = NoOp
  /\ plan = NoPlan
  /\ threads = NoThreads
  /\ calls = 0

CalculateSalaryTo(employee_id, f, result) ==
  /\ last' = [op |-> "calculate", employee_id |-> employee_id, fault |-> f, result |-> result]
  /\ UNCHANGED << pc, state, visited, returned, fault, employees, ats, plan, threads, calls >>
CalculateSalary ==
  \E employee_id \in EmployeeIds, f \in {"none", "db"} :
    CalculateSalaryTo(employee_id, f, service_calculate_salary(employees, f # "db", employee_id))

\* the departments asked for: None, "all" in another case, a department in
\* its own and in another case, a part of its name, and one without employees
ReportDepartments == {"", "ALL", "IT", "it", "I", "Sales"}
GenerateReportTo(department, f, failed, result) ==
  /\ last' = [op |-> "report", department |-> department, fault |-> f,
              failed |-> failed, result |-> result]
  /\ UNCHANGED << pc, state, visited, returned, fault, employees, ats, plan, threads, calls >>
\* a report with the database up or down throughout, or with the lookup of
\* one of its calculations failing
GenerateReport ==
  \E department \in ReportDepartments :
    \/ \E f \in {"none", "db"} :
         GenerateReportTo(department, f, {},
                          tools_generate_payroll_report(employees, f # "db", department))
    \/ \E k \in 1..Len(report_selection(employees, TRUE, department)) :
         GenerateReportTo(department, "lookup", {k},
                          report_with_failed_lookups(employees, department, {k}))

NextPayroll == CalculateSalary \/ GenerateReport
SpecPayroll == InitPayroll /\ [][NextPayroll]_vars

(***************************************************************************)
(* The classifier and the identifier resolver on free-text queries         *)
(***************************************************************************)
\* the words of the queries to classify: the keywords of both lists and
\* words of neither
ClassifierWords ==
  { "search", "candidate", "cv", "applicant", "hire", "recruit",
    "salary", "payroll", "calculate", "employee", "report",
    "hello", "Kamal", "for" }
\* a word or two words, as typed and in capitals
ClassifierQueries ==
  { q : q \in ClassifierWords } \cup { Upper(q) : q \in ClassifierWords }
    \cup { a \o " " \o b : a \in ClassifierWords, b \in ClassifierWords }
    \cup { Upper(a) \o " " \o b : a \in ClassifierWords, b \in ClassifierWords }
\* what is asked and about whom: a phrase, a subject, an ending
ResolverPhrases ==
  { "salary for ", "salary of ", "payroll for ", "Calculate salary for ", "show " }
ResolverSubjects ==
  { "John Doe Smith", "Kamal Perera", "kamal perera", "Nimal", "Ruwan Silva",
    "EMP014", "emp014", "Adm001", "EMP014 Kamal Perera", "Kamal Perera EMP014",
    "EMP001 EMP002", "EMP0145 and EMP002", "EMP01", "temp" }
ResolverEndings == { "", "?" }
ResolverQueries ==
  { p \o n \o e : p \in ResolverPhrases, n \in ResolverSubjects, e \in ResolverEndings }

InitQueries ==
  /\ pc = "idle"
  /\ state = NoRequest
  /\ visited = << >>
  /\ returned = ""
  /\ fault = "none"
  /\ employees = SampleEmployees
  /\ ats = EmptyAts
  /\ last = NoOp
  /\ plan = NoPlan
  /\ threads = NoThreads
  /\ calls = 0

ClassifyTo(user_query, classified) ==
  /\ last' = [op |-> "classify", query |-> user_query, intent |-> classified.intent]
  /\ UNCHANGED << pc, state, visited, returned, fault, employees, ats, plan, threads, calls >>
\* the node classify_intent on the state of a new request
Classify ==
  \E user_query \in ClassifierQueries, user_context \in Callers :
    ClassifyTo(user_query, classify_intent(initial_state(user_query, user_context)))
\* _extract_employee_id_or_name on a query
Resolve ==
  \E query \in ResolverQueries :
    /\ last' = [op |-> "resolve", query |-> query,
                result |-> extract_employee_id_or_name(query)]
    /\ UNCHANGED << pc, state, visited, returned, fault, employees, ats, plan, threads, calls >>

NextQueries == Classify \/ Resolve
SpecQueries == InitQueries /\ [][NextQueries]_vars

(***************************************************************************)
(* The payroll handler on the requests of every caller                     *)
(***************************************************************************)
\* whom a salary is asked for: the caller, a colleague, a name that holds
\* the caller's first name and is nobody's, an ID of no employee, no one
HandlerSubjects ==
  { "Kamal Perera", "Kamalan", "Nimal", "EMP001", "emp002", "EMP999", "Zed Zedson" }
\* the queries the help text advertises for reports, and others
ReportQueries ==
  { "Generate payroll report", "Generate payroll report for IT",
    "Generate payroll report for Sales", "generate report", "monthly report for HR" }
HandlerQueries ==
  { p \o n : p \in {"Calculate salary for ", "salary of "}, n \in HandlerSubjects }
    \cup ReportQueries
    \cup { "Calculate my salary", "Show all employees", "debug", "employee help" }

HandlePayrollRequestTo(user_query, user_context, f, handled) ==
  /\ last' = [op |-> "handle_payroll", query |-> user_query, user_context |-> user_context,
              fault |-> f, tool_result |-> handled.tool_result]
  /\ UNCHANGED << pc, state, visited, returned, fault, employees, ats, plan, threads, calls >>
\* the node handle_payroll on the state of a request, with the database up
\* or down, or with a step of the handler raising
HandlePayrollRequest ==
  \E user_query \in HandlerQueries, user_context \in Callers, f \in {"none", "db", "raise"} :
    HandlePayrollRequestTo(user_query, user_context, f,
                           handle_payroll(initial_state(user_query, user_context),
                                          employees, f # "db", f = "raise"))

NextHandlers == HandlePayrollRequest
SpecHandlers == InitQueries /\ [][NextHandlers]_vars

(***************************************************************************)
(* Properties of the workflow                                              *)
(***************************************************************************)
Standard == state.user_context.role = "user"
Elevated == state.user_context.role = "admin"
ResultType == Get(state.tool_result, "type", "")
Ran(node) == \E k \in 1..Len(visited) : visited[k] = node
Gated == Ran("check_permissions")
OtherEmployeeIds ==
  {employees[k].employee_id : k \in 1..Len(employees)} \ {state.user_context.employee_id}

\* C1: a standard-role caller who is shown a pay breakdown is shown their own
\* one: the breakdown's employee ID is the caller's employee ID.
C1_OwnPayOnly ==
  (Standard /\ pc = "done" /\ ResultType = "salary_calculation"
     /\ ~HasError(state.tool_result.result))
  => state.tool_result.result.employee_id = state.user_context.employee_id

\* C2: for a standard-role caller the workflow never enters handle_ats, and
\* every query the classifier would route to it is denied at the gate with
\* the ATS-restricted reason.
C2_NoSearchForStandard ==
  Standard =>
    /\ pc # "handle_ats" /\ ~Ran("handle_ats")
    /\ ResultType \notin {"candidate_search", "all_candidates"}
    /\ (Gated /\ intent_of(Lower(state.user_query)) = "ats")
         => (~state.permission_granted /\ state.denied_reason = AtsRestricted)
C2_Witness ==
  /\ Standard /\ pc = "done" /\ state.user_query = "hire"
  /\ visited = <<"check_permissions", "access_denied">>
  /\ Contains(returned, AtsRestricted)

\* C3 as stated: a caller who is not an admin never gets a payroll report or
\* an employee list, and every request for one (a query with an admin-only
\* keyword) ends denied or in an error saying the function is for HR Admin only.
RequestsAdminFunction == ContainsAny(Lower(state.user_query), admin_keywords)
SaysAdminOnly == Contains(returned, "HR Admin only")
GateIdentifier == extract_employee_id_or_name(Lower(state.user_query))
PayrollRuleApplies ==
  /\ Standard /\ Gated
  /\ ~ContainsAny(Lower(state.user_query), ats_keywords)
  /\ ContainsAny(Lower(state.user_query), gate_payroll_keywords)
  /\ GateIdentifier # None
IsOwnId == Upper(GateIdentifier) = state.user_context.employee_id
IsPartOfOwnName ==
  /\ state.user_context.name # ""
  /\ \/ Contains(Lower(state.user_context.name), Lower(GateIdentifier))
     \/ Contains(Lower(GateIdentifier), Lower(state.user_context.name))
SharesToken ==
  \E k \in 1..Len(Split(Lower(GateIdentifier))) :
    \E j \in 1..Len(Split(Lower(state.user_context.name))) :
      Split(Lower(GateIdentifier))[k] = Split(Lower(state.user_context.name))[j]
C5_OwnNameOtherId ==
  (Standard /\ Gated) =>
    /\ state.user_query = "calculate salary for " \o state.user_context.name
         => state.permission_granted
    /\ (\E id \in OtherEmployeeIds :
          Upper(state.user_query) = Upper("calculate salary for " \o id))
         => /\ ~state.permission_granted
            /\ Contains(state.denied_reason, state.user_context.employee_id)
            /\ Contains(state.denied_reason, state.user_context.name)

\* C6: a run is a path of the fixed graph, check_permissions then
\* access_denied, or classify_intent then at most one handler then
\* generate_response, no node twice, and every run that starts ends after
\* generate_response or access_denied.
Paths ==
  { <<"check_permissions", "access_denied">>,
    <<"check_permissions", "classify_intent", "generate_response">>,
    <<"check_permissions", "classify_intent", "handle_ats", "generate_response">>,
    <<"check_permissions", "classify_intent", "handle_payroll", "generate_response">> }
IsPrefix(a, b) == Len(a) <= Len(b) /\ SubSeq(b, 1, Len(a)) = a
OnPath ==
  IF pc = "idle" THEN visited = << >>
  ELSE IF pc \in {"END", "done"} THEN visited \in Paths
  ELSE \E path \in Paths : IsPrefix(Append(visited, pc), path)
C6_FixedPath ==
  /\ [](OnPath)
  /\ (pc = "check_permissions") ~> (pc = "done" /\ visited \in Paths)
C6_Witness ==
  /\ pc = "done"
  /\ visited = <<"check_permissions", "classify_intent", "handle_payroll", "generate_response">>

\* C7: a denied request goes from check_permissions to access_denied and
\* nowhere else; intent and tool_result keep their initial values, no handler
\* runs, and the text returned is the denial message with the reason in it.
C7_DenialShortCircuits ==
  (Gated /\ ~state.permission_granted) =>
    /\ pc \in {"access_denied", "END", "done"}
    /\ ~Ran("classify_intent") /\ ~Ran("handle_ats") /\ ~Ran("handle_payroll")
    /\ ~Ran("generate_response")
    /\ state.intent = "" /\ state.tool_result = EmptyDict /\ fault = "none"
    /\ employees = SampleEmployees /\ ats = SampleAts
    /\ state.denied_reason # ""
    /\ pc = "done" =>
         /\ returned = access_denied(state).final_response
         /\ Contains(returned, "Access Denied")
         /\ Contains(returned, state.denied_reason)
C7_Witness ==
  /\ pc = "done" /\ Gated /\ ~state.permission_granted
  /\ state.denied_reason = AdminOnly /\ Contains(returned, AdminOnly)

\* C8: when the backing store, the embedder or a handler step fails during a
\* run, the run still ends after generate_response and the text returned is
\* an error text.
StoreFailed ==
  fault = "db" /\ ResultType \in {"candidate_search", "all_candidates", "salary_calculation"}
EmbedderFailed ==
  /\ fault = "encode" /\ ResultType = "candidate_search"
  /\ ats.index.present /\ ats.cv_metadata # << >> /\ ats.candidates # << >>
StepFailed == fault = "step"
C8_FailureBecomesErrorText ==
  (pc = "done" /\ (StoreFailed \/ EmbedderFailed \/ StepFailed)) =>
    /\ visited \in Paths
    /\ Contains(returned, "Error")

(***************************************************************************)
(* Properties of the candidate store                                       *)
(***************************************************************************)
Added == last.op = "add"
\* the active documents of the identity of the last call, before it
SameIdentity(cands) ==
  { i \in 1..Len(cands) :
      /\ cands[i].candidate_name = last.candidate_name
      /\ cands[i].position = last.position
      /\ cands[i].status = "active" }
\* the index entries of that identity
EntriesOf(cv_metadata) ==
  { i \in 1..Len(cv_metadata) :
      /\ cv_metadata[i].candidate_name = last.candidate_name
      /\ cv_metadata[i].position = last.position }
ExtractionSucceeded == ~StartsWith(extract_text_from_file(last.file), "Error")

\* C9: add_cv_to_database is keyed on name and position: with the store and
\* the embedder working and the text extracted, it fails as a duplicate
\* exactly when an active candidate of the same name and the same position
\* exists, and otherwise creates the candidate.
C9_KeyedOnNameAndPosition ==
  (Added /\ last.fault = "none" /\ ExtractionSucceeded) =>
    IF SameIdentity(last.before.candidates) # {}
    THEN ~last.success /\ Contains(last.message, "already exists")
    ELSE /\ last.success
         /\ SameIdentity(ats.candidates) # {}
         /\ Len(ats.candidates) = Len(last.before.candidates) + 1

\* C10: adding an identity that is already active fails as a duplicate and
\* leaves the collection, the index, its metadata and the saved files as they
\* were: the index holds no second entry of the identity.
C10_SecondAddChangesNothing ==
  (Added /\ last.fault # "db" /\ SameIdentity(last.before.candidates) # {}) =>
    /\ ~last.success
    /\ last.message = "Candidate " \o last.candidate_name \o " already exists in database"
    /\ ats = last.before
    /\ Cardinality(EntriesOf(ats.cv_metadata)) <= 1
    /\ Len(ats.index.vectors) = Len(ats.cv_metadata)
C10_Witness ==
  /\ Added /\ last.fault = "none" /\ ~last.success
  /\ Cardinality(SameIdentity(ats.candidates)) = 1
  /\ Cardinality(EntriesOf(ats.cv_metadata)) = 1
  /\ Len(ats.index.vectors) = 1

(***************************************************************************)
(* Properties of deletion, rebuild and search                              *)
(***************************************************************************)
Deleted == last.op = "delete"
\* the active documents of a name
ActiveOfName(cands, candidate_name) ==
  { i \in 1..Len(cands) :
      cands[i].candidate_name = candidate_name /\ cands[i].status = "active" }
\* what is searched for, and how many results are asked for
SearchQueries == {"java", "python", "developer"}
TopKs == {1, DefaultTopK}
\* C11: when delete_candidate answers success, no active document of that
\* candidate is left in the collection and no search returns the candidate,
\* also when the candidate was added, deleted and added again before.
C11_DeletedIsGone ==
  (Deleted /\ last.success) =>
    /\ ActiveOfName(ats.candidates, last.candidate_name) = {}
    /\ \A q \in SearchQueries, k \in TopKs :
         \A n \in 1..Len(search_candidates(ats, TRUE, TRUE, q, k)) :
           search_candidates(ats, TRUE, TRUE, q, k)[n].candidate_name # last.candidate_name

\* C12: delete_candidate of a name that has no active document (never added,
\* or deleted already) answers "not found" and leaves the collection, the
\* index, its metadata and the saved files as they were.
C12_DeleteOfInactiveIsNotFound ==
  (Deleted /\ last.fault = "none"
     /\ ActiveOfName(last.before.candidates, last.candidate_name) = {}) =>
    /\ ~last.success
    /\ last.message = "Candidate " \o last.candidate_name \o " not found"
    /\ ats = last.before

\* the active documents of the collection
ActiveDocs(cands) == { i \in 1..Len(cands) : cands[i].status = "active" }
\* an index entry whose candidate is active in the collection
EntryIsActive(meta, cands) ==
  \E i \in ActiveDocs(cands) :
    cands[i].candidate_name = meta.candidate_name /\ cands[i].position = meta.position

\* C13: after the rebuild that a successful delete_candidate runs, with the
\* store, the embedder and the disk working, the index holds as many vectors
\* and metadata entries as the collection holds active documents, and every
\* entry is that of an active document.
C13_IndexMatchesActive ==
  (Deleted /\ last.success /\ last.fault = "none") =>
    /\ Len(ats.index.vectors) = Cardinality(ActiveDocs(ats.candidates))
    /\ Len(ats.cv_metadata) = Cardinality(ActiveDocs(ats.candidates))
    /\ \A n \in 1..Len(ats.cv_metadata) : EntryIsActive(ats.cv_metadata[n], ats.candidates)

\* a search result is a document that is active in the collection, with its score
IsActiveRecord(r, cands) ==
  \E i \in ActiveDocs(cands) : \A f \in DOMAIN cands[i] : f \in DOMAIN r /\ r[f] = cands[i][f]
AllActive(results, cands) ==
  \A n \in 1..Len(results) : IsActiveRecord(results[n], cands)
DeletedDocs(cands) == { i \in 1..Len(cands) : cands[i].status = "deleted" }

\* C14: a search made right after the rebuild of a successful delete_candidate
\* returns active documents of the collection only, whatever the query, the
\* number of results asked for and the uploads and deletions before; a
\* document marked deleted is never among the results.
C14_SearchReturnsActiveOnly ==
  (Deleted /\ last.success) =>
    \A q \in SearchQueries, k \in TopKs, db_up \in BOOLEAN, encode_ok \in BOOLEAN :
      AllActive(search_candidates(ats, db_up, encode_ok, q, k), ats.candidates)
C14_Witness ==
  /\ Deleted /\ last.success
  /\ DeletedDocs(ats.candidates) # {}
  /\ ats.index.present
  /\ Len(search_candidates(ats, TRUE, TRUE, "java", DefaultTopK)) > 0

\* C16: add_cv_to_database is all or nothing: when it answers failure, the
\* collection, the index, its metadata and the saved files are as they were
\* before the call.
C16_FailedAddChangesNothing ==
  (Added /\ ~last.success) => ats = last.before

\* C17: add_cv_to_database of a file whose format no extractor reads (an
\* extension other than .pdf, .docx and .txt) answers failure, creates no
\* document and no index entry, and the extractor's message is never stored
\* as cv_text.
Unsupported(file) == file.ext \notin {".pdf", ".docx", ".txt"}
C17_UnsupportedFormatIsRefused ==
  /\ (Added /\ Unsupported(last.file)) => (~last.success /\ ats = last.before)
  /\ \A i \in 1..Len(ats.candidates) :
       ~Contains(ats.candidates[i].cv_text, "Unsupported file format")

(***************************************************************************)
(* Properties of the salary calculation                                    *)
(***************************************************************************)
Calculated == last.op = "calculate"
ActiveWithId(emps, employee_id) ==
  { i \in 1..Len(emps) : emps[i].employee_id = employee_id /\ emps[i].status = "active" }

\* C20: calculate_salary answers "not found" whenever no active employee has
\* the ID, also for a document of that ID whose status is not active, and
\* answers a breakdown for active employees only.
C20_NotFoundUnlessActive ==
  Calculated =>
    IF ActiveWithId(employees, last.employee_id) = {}
    THEN HasError(last.result) /\ Contains(last.result.error, "not found")
    ELSE ~HasError(last.result) =>
           \E i \in ActiveWithId(employees, last.employee_id) :
             last.result = salary_breakdown(employees[i])

(***************************************************************************)
(* Properties of ATSTools under concurrent requests                        *)
(***************************************************************************)
Returned(t, op) == threads[t].op = op /\ threads[t].pc = "returned"
Quiet == \A t \in Workers : threads[t].pc \in {"idle", "returned"}
ActiveOfIdentity(cands, candidate_name, position) ==
  { i \in ActiveDocs(cands) :
      cands[i].candidate_name = candidate_name /\ cands[i].position = position }
EntriesOfIdentity(cv_metadata, candidate_name, position) ==
  { i \in 1..Len(cv_metadata) :
      cv_metadata[i].candidate_name = candidate_name /\ cv_metadata[i].position = position }
NoTwoSameIdentity(results) ==
  \A m \in 1..Len(results), n \in 1..Len(results) :
    (m # n) => ~(/\ results[m].candidate_name = results[n].candidate_name
                 /\ results[m].position = results[n].position)

\* C15: in every state the collection and the index reach, also with two
\* active documents of one identity, a search returns no two results of the
\* same name and position, on the vector path and on the substring path,
\* for every query and every number of results asked for; so do the searches
\* of the request threads.
C15_SearchResultsAreDistinct ==
  /\ \A q \in SearchQueries, k \in TopKs :
       NoTwoSameIdentity(search_candidates(ats, TRUE, TRUE, q, k))
  /\ \A t \in Workers : Returned(t, "search") => NoTwoSameIdentity(threads[t].result.results)
C15_Witness ==
  /\ \E u \in ConcurrentUploads :
       Cardinality(ActiveOfIdentity(ats.candidates, u.candidate_name, u.position)) > 1
  /\ \E t \in Workers : Returned(t, "search") /\ Len(threads[t].result.results) > 1

\* C18: a search that reads self.index and self.cv_metadata while another
\* thread is inside a rebuild reads either the pair the rebuild started from
\* or the pair it ends with.
C18_SearchSeesWholeIndex ==
  \A s \in Workers, r \in Workers :
    ( /\ Returned(s, "search")
      /\ Returned(r, "delete")
      /\ threads[r].result.success
      /\ threads[r].id \in threads[s].result.during ) =>
    threads[s].result.seen \in { threads[r].result.before, threads[r].result.after }

\* C19: once the uploads of the request threads have returned, however their
\* steps interleaved, at most one upload of an identity has succeeded, the
\* collection holds at most one active document of it and the index at most
\* one entry.
C19_OneConcurrentAddWins ==
  Quiet =>
    \A u \in ConcurrentUploads :
      /\ Cardinality({ t \in Workers :
                         Returned(t, "add") /\ threads[t].args = u /\ threads[t].result.success }) <= 1
      /\ Cardinality(ActiveOfIdentity(ats.candidates, u.candidate_name, u.position)) <= 1
      /\ Cardinality(EntriesOfIdentity(ats.cv_metadata, u.candidate_name, u.position)) <= 1

(***************************************************************************)
(* Properties of the salary breakdown and the payroll report               *)
(***************************************************************************)
\* the document find_one({"employee_id": id}) answers, 0 for None
FoundDocument(emps, employee_id) ==
  FirstOf({ i \in 1..Len(emps) : emps[i].employee_id = employee_id })
Component(employee, field) == IF field \in DOMAIN employee THEN employee[field] ELSE 0
RateOf(employee) == IF "tax_rate" \in DOMAIN employee THEN employee.tax_rate ELSE DefaultTaxRate
GrossOf(employee) == Component(employee, "salary") + Component(employee, "bonus")

\* C21: for every document found, calculate_salary answers a breakdown, never
\* an error, with gross = base salary + bonus, tax = gross * tax rate and
\* net = gross - tax - deductions, a missing base salary, bonus or deductions
\* counting as 0 and a missing tax rate as 0.1 (10 percent); base 100000,
\* bonus 10000, rate 0.1 and deductions 2000 give 110000, 11000 and 97000.
C21_BreakdownOfComponents ==
  /\ ( /\ Calculated
       /\ last.fault = "none"
       /\ FoundDocument(employees, last.employee_id) # 0 ) =>
     ( /\ ~HasError(last.result)
       /\ last.result.base_salary = Component(employees[FoundDocument(employees, last.employee_id)], "salary")
       /\ last.result.bonus = Component(employees[FoundDocument(employees, last.employee_id)], "bonus")
       /\ last.result.deductions = Component(employees[FoundDocument(employees, last.employee_id)], "deductions")
       /\ last.result.tax_rate = RateOf(employees[FoundDocument(employees, last.employee_id)])
       /\ last.result.gross_salary = GrossOf(employees[FoundDocument(employees, last.employee_id)])
       /\ last.result.tax_amount * 100 =
            GrossOf(employees[FoundDocument(employees, last.employee_id)])
            * RateOf(employees[FoundDocument(employees, last.employee_id)])
       /\ last.result.net_salary =
            last.result.gross_salary - last.result.tax_amount - last.result.deductions )
  /\ ( /\ Calculated
       /\ ~HasError(last.result)
       /\ last.result.base_salary = 100000
       /\ last.result.bonus = 10000
       /\ last.result.tax_rate = 10
       /\ last.result.deductions = 2000 ) =>
     ( /\ last.result.gross_salary = 110000
       /\ last.result.tax_amount = 11000
       /\ last.result.net_salary = 97000 )
\* a calculation for a document without tax rate and deductions, and the
\* breakdown of the example
C21_Witness ==
  /\ Calculated
  /\ last.fault = "none"
  /\ FoundDocument(employees, last.employee_id) # 0
  /\ DOMAIN employees[FoundDocument(employees, last.employee_id)] \cap OptionalFields = {"salary", "bonus"}
  /\ ~HasError(last.result)
  /\ last.result.net_salary = 99000

Reported == last.op = "report"
\* the active employees a report on the department is about
ReportSet(emps, department) ==
  SelectSeq(emps, LAMBDA e :
    /\ e.status = "active"
    /\ \/ department = ""
       \/ Lower(department) = "all"
       \/ Lower(e.department) = Lower(department))
LineFields ==
  {"employee_id", "name", "position", "department", "base_salary", "bonus",
   "gross_salary", "tax_amount", "deductions", "net_salary"}
\* a line item is the calculation of the employee, on the fields of a line
IsLineOf(item, employee) ==
  /\ DOMAIN item = LineFields
  /\ \A f \in LineFields :
       item[f] = service_calculate_salary(employees, TRUE, employee.employee_id)[f]
RECURSIVE TotalOf(_, _)
TotalOf(items, field) ==
  IF items = << >> THEN 0 ELSE items[1][field] + TotalOf(Tail(items), field)

\* C22: a payroll report over a non-empty set of active employees, those of
\* a department matched exactly in any letter case or all of them, that
\* finds its employees lists one line item per active employee of the set, in
\* their order, each the calculation for that employee; total_employees is
\* their number and every total is the sum of its field over the line items.
C22_ReportListsEveryEmployee ==
  ( /\ Reported
    /\ last.fault # "db"
    /\ ReportSet(employees, last.department) # << >> ) =>
  ( /\ ~HasError(last.result)
    /\ Len(last.result.employees) = Len(ReportSet(employees, last.department))
    /\ \A k \in 1..Len(last.result.employees) :
         IsLineOf(last.result.employees[k], ReportSet(employees, last.department)[k])
    /\ last.result.total_employees = Len(ReportSet(employees, last.department))
    /\ last.result.total_base_salary = TotalOf(last.result.employees, "base_salary")
    /\ last.result.total_bonus = TotalOf(last.result.employees, "bonus")
    /\ last.result.total_gross_salary = TotalOf(last.result.employees, "gross_salary")
    /\ last.result.total_tax = TotalOf(last.result.employees, "tax_amount")
    /\ last.result.total_deductions = TotalOf(last.result.employees, "deductions")
    /\ last.result.total_net_salary = TotalOf(last.result.employees, "net_salary") )

\* C23: a report over a department, or over all departments, with no active
\* employee answers the error "No employees found for ...", never a report;
\* with the database down it answers an error as well.  No step of the
\* report divides: the totals are sums and total_employees a length.
C23_EmptyReportIsAnError ==
  ( /\ Reported
    /\ ReportSet(employees, last.department) = << >> ) =>
  ( /\ HasError(last.result)
    /\ (last.fault = "none") => Contains(last.result.error, "No employees found for") )
C23_Witness ==
  /\ Reported
  /\ last.fault = "none"
  /\ last.department = "IT"
  /\ ReportSet(employees, "IT") = << >>
  /\ ReportSet(employees, "") # << >>
  /\ last.result = ErrorResult("No employees found for IT Department")

(***************************************************************************)
(* Properties of the classifier and of the identifier resolver             *)
(***************************************************************************)
Classified == last.op = "classify"
HasKeyword(query, keywords) == \E k \in keywords : Contains(Lower(query), k)
CandidateSearchKeywords == {"search", "candidate", "cv", "applicant", "hire", "recruit"}
GatePayrollKeywords == {"salary", "payroll", "calculate"}
ClassifierPayrollKeywords == GatePayrollKeywords \cup {"employee", "report"}
\* the priority-ordered keyword test with a given list of payroll keywords
IntentBy(query, payroll_keywords) ==
  IF HasKeyword(query, CandidateSearchKeywords) THEN "ats"
  ELSE IF HasKeyword(query, payroll_keywords) THEN "payroll"
  ELSE "general"

\* C24 as stated: the intent is candidate-search iff the lowercased query
\* contains one of search, candidate, cv, applicant, hire, recruit; otherwise
\* payroll iff it contains one of salary, payroll, calculate; otherwise
\* general.
C24_Original == Classified => last.intent = IntentBy(last.query, GatePayrollKeywords)
\* C24: the same priority-ordered test with the payroll keywords of the
\* classifier, which are salary, payroll, calculate, employee and report: a
\* query with keywords of both lists is candidate-search, a query with
\* keywords of neither is general.
C24_IntentByKeywords == Classified => last.intent = IntentBy(last.query, ClassifierPayrollKeywords)
C24_Witness ==
  /\ Classified
  /\ HasKeyword(last.query, CandidateSearchKeywords)
  /\ HasKeyword(last.query, GatePayrollKeywords)
  /\ last.query # Lower(last.query)
  /\ last.intent = "ats"

Resolved == last.op = "resolve"
\* the phrases a person is named after, and the persons named
AnchorPhrases == {"salary for ", "salary of ", "payroll for "}
PersonSubjects == {"John Doe Smith", "Kamal Perera", "kamal perera", "Nimal", "Ruwan Silva"}
NamesPerson(query) ==
  \E p \in AnchorPhrases, n \in PersonSubjects, e \in ResolverEndings : query = p \o n \o e
WordsOf(s) == { Split(Lower(s))[i] : i \in 1..Len(Split(Lower(s))) }

\* C25: for a query without a structured ID that names a person after
\* "salary for", "salary of" or "payroll for", the resolver answers a name,
\* not None, made of words of the query; so it does for "salary for John
\* Doe Smith".
C25_AnchoredNameIsResolved ==
  (Resolved /\ NamesPerson(last.query)) =>
    /\ last.result # None
    /\ WordsOf(last.result) \subseteq { StripNonWord(w) : w \in WordsOf(last.query) }

\* the IDs written in the query as words of their own: EMP or ADM and exactly
\* three digits, in any letter case
IdTokens(query) ==
  { Upper(StripNonWord(Split(query)[i])) : i \in 1..Len(Split(query)) }
    \cap { t \in { Upper(StripNonWord(Split(query)[i])) : i \in 1..Len(Split(query)) } :
             IsEmployeeIdFormat(t) }

\* C26: whenever a word of the query is a structured ID, the resolver
\* answers that ID in upper case, whatever names the query holds besides.
C26_IdTokenWins ==
  (Resolved /\ IdTokens(last.query) # {}) => last.result \in IdTokens(last.query)

(***************************************************************************)
(* Properties of the persisted index                                       *)
(***************************************************************************)
\* C27: after a delete_candidate that succeeded, with nothing failing, the
\* files hold the index and the metadata the rebuild left in memory, also
\* when the last active candidate was deleted and the rebuilt index is
\* empty, so that _load_index in a new process brings back no entry of a
\* candidate who is not active.
C27_SavedIndexIsRebuiltIndex ==
  (Deleted /\ last.success /\ last.fault = "none") =>
    /\ load_index(ats).index = ats.index
    /\ load_index(ats).cv_metadata = ats.cv_metadata
    /\ \A k \in 1..Len(load_index(ats).cv_metadata) :
         EntryIsActive(load_index(ats).cv_metadata[k], ats.candidates)

(***************************************************************************)
(* Properties of the payroll handler                                       *)
(***************************************************************************)
Handled == last.op = "handle_payroll"
\* the query takes the salary branch of the handler
AsksSalary == Contains(Lower(last.query), "salary") \/ Contains(Lower(last.query), "payroll")
IsElevated == last.user_context.role = "admin"
OwnId == last.user_context.employee_id
Named == extract_employee_id_or_name(last.query)
\* the ownership check of the handler: the caller's ID, or a part of the
\* caller's name
PassesOwnership ==
  \/ Upper(Named) = OwnId
  \/ Contains(Lower(last.user_context.name), Lower(Named))
  \/ Contains(Lower(Named), Lower(last.user_context.name))
  \/ \E w \in WordsOf(last.user_context.name) : Contains(Lower(Named), w)
  \/ \E w \in WordsOf(Named) : Contains(Lower(last.user_context.name), w)
CalculationFor(identifier) == tools_calculate_salary(employees, last.fault # "db", identifier)
IsCalculation(result) == last.tool_result = [type |-> "salary_calculation", result |-> result]

\* C28: in the salary branch of handle_payroll, for a caller who is not an
\* admin, a query that names nobody is answered with the calculation for the
\* caller's own ID; a named identifier that passes the ownership check, is
\* not the caller's ID and whose calculation answers an error is answered
\* with the calculation for the caller's own ID, and otherwise with its own
\* calculation.  For an admin the calculation for the named identifier is
\* reported as it is, error or not.
C28_FallbackToOwnId ==
  (Handled /\ last.fault # "raise" /\ AsksSalary) =>
    /\ (~IsElevated /\ Named = None) => IsCalculation(CalculationFor(OwnId))
    /\ (~IsElevated /\ Named # None /\ PassesOwnership) =>
         IF HasError(CalculationFor(Named)) /\ Named # OwnId
         THEN IsCalculation(CalculationFor(OwnId))
         ELSE IsCalculation(CalculationFor(Named))
    /\ (IsElevated /\ Named # None) => IsCalculation(CalculationFor(Named))
\* a caller who is not an admin names somebody the lookup does not find, and
\* is answered with the caller's own salary
C28_Witness ==
  /\ Handled
  /\ last.fault = "none"
  /\ AsksSalary
  /\ ~IsElevated
  /\ Named \notin {None, OwnId}
  /\ PassesOwnership
  /\ HasError(CalculationFor(Named))
  /\ ~HasError(last.tool_result.result)
  /\ last.tool_result.result.employee_id = OwnId

\* the wording of the help text: "Generate payroll report" and "Generate
\* payroll report for [Department]"
AdvertisedReportQueries ==
  { "Generate payroll report", "Generate payroll report for IT",
    "Generate payroll report for Sales" }
\* C29: for an admin, a query in the advertised wording is answered by the
\* report branch, with a payroll report or the error of the report, not by
\* the salary calculation of a single employee.
C29_AdvertisedReportIsAReport ==
  ( /\ Handled
    /\ IsElevated
    /\ last.fault # "raise"
    /\ last.query \in AdvertisedReportQueries ) =>
  ( /\ last.tool_result.type = "payroll_report"
    /\ last.tool_result.result =
         tools_generate_payroll_report(employees, last.fault # "db",
                                       extract_department(last.query)) )

(***************************************************************************)
(* Properties of the roles                                                 *)
(***************************************************************************)
\* C30: for a caller of any role other than admin, not only for the role
\* user, the workflow never enters handle_ats and no result of a candidate
\* search or listing is produced.
C30_SearchForAdminOnly ==
  ~Elevated =>
    /\ pc # "handle_ats" /\ ~Ran("handle_ats")
    /\ ResultType \notin {"candidate_search", "all_candidates"}
====
